---- MODULE Spec2Model ----
(***************************************************************************)
(* Model of the sports-predictor core: the feature engine, the heuristic   *)
(* prediction model, the Kelly stake sizer with the paper-betting ledger,  *)
(* the backtest replay, settlement passes of two processes sharing the     *)
(* database, the logistic-regression MLModel, a placeBets call of the API  *)
(* server taken from await to await, and a session of CLI commands.        *)
(*                                                                         *)
(* Numbers.  The JavaScript code computes in IEEE doubles.  The model      *)
(* computes in exact rationals <<n, d>> (d > 0, lowest terms), so that an  *)
(* equality of the model is an equality of the mathematics the code        *)
(* writes down; Number.prototype.toFixed is modelled by what it does       *)
(* (round to 3 decimals, ties away from zero), never as the identity.      *)
(* Times are in minutes.  NULL is the SQL NULL of a score column.          *)
(***************************************************************************)
EXTENDS Integers, Sequences, FiniteSets, TLC

VARIABLES
    weights,    \* PredictionModel.weights: NoWeights until train() succeeds
    isTrained,  \* PredictionModel.isTrained
    pred,       \* the value the last prediction-model call returned
    mem,        \* BettingService.state (the in-memory bankroll state)
    db,         \* the `state` table rows bankroll / betting_stats, or NoRow
    bets,       \* the paper_bets table, joined with its predictions row
    games,      \* the games table: status and scores by game id
    ret,        \* the value the last BettingService call returned
    hist,       \* the historical_games table, rows in insertion order
    now,        \* Date.now(), in minutes
    cache,      \* FeatureEngine.cache: key -> [data, timestamp]
    bt,         \* BacktestService.runBacktest: its locals and position
    procs,      \* the settlement pass of each process that shares the database
    ml,         \* MLModel: isTrained, weights, bias and the last value returned
    cycle       \* the placeBets call under way in the API server, between awaits

vars == <<weights, isTrained, pred, mem, db, bets, games, ret, hist, now, cache, bt,
          procs, ml, cycle>>

modelVars == <<weights, isTrained, pred>>
ledgerVars == <<mem, db, bets, games, ret>>
storeVars == <<hist, now, cache>>
extVars == <<procs, ml, cycle>>

NULL == -1

-----------------------------------------------------------------------------
(* Exact rationals.                                                        *)

Abs(n) == IF n < 0 THEN -n ELSE n

RECURSIVE Gcd(_, _)
Gcd(a, b) == IF b = 0 THEN a ELSE Gcd(b, a % b)

\* n/d in lowest terms with a positive denominator (d # 0).
R(n, d) ==
    LET s == IF d < 0 THEN -1 ELSE 1
        g == Gcd(Abs(n), Abs(d))
    IN  <<(s * n) \div g, (s * d) \div g>>

I(n) == <<n, 1>>

RAdd(x, y) ==
    LET g == Gcd(x[2], y[2])
    IN  R(x[1] * (y[2] \div g) + y[1] * (x[2] \div g), x[2] * (y[2] \div g))

RNeg(x) == <<-x[1], x[2]>>

RSub(x, y) == RAdd(x, RNeg(y))

RMul(x, y) ==
    LET g1 == Gcd(Abs(x[1]), y[2])
        g2 == Gcd(Abs(y[1]), x[2])
    IN  R((x[1] \div g1) * (y[1] \div g2), (x[2] \div g2) * (y[2] \div g1))

\* x / y, y # 0
RDiv(x, y) == RMul(x, R(y[2], y[1]))

RLt(x, y) ==
    LET g == Gcd(x[2], y[2])
    IN  x[1] * (y[2] \div g) < y[1] * (x[2] \div g)

RLe(x, y) == ~RLt(y, x)

\* Math.min / Math.max: on equal arguments either is the same number.
RMin(x, y) == IF RLt(y, x) THEN y ELSE x

RMax(x, y) == IF RLt(x, y) THEN y ELSE x

\* Math.floor
RFloor(x) == x[1] \div x[2]

Zero == I(0)
One == I(1)
Half == R(1, 2)

\* Number.prototype.toFixed(3), read back by parseFloat: the decimal n/1000
\* nearest to x, the larger n on a tie; a negative x is formatted as -(-x).
toFixed3(x) ==
    LET a == <<Abs(x[1]), x[2]>>
        n == RFloor(RAdd(RMul(a, I(1000)), Half))
    IN  IF x[1] < 0 THEN R(-n, 1000) ELSE R(n, 1000)

\* Number.prototype.toFixed(2) and toFixed(1), likewise.
toFixed2(x) ==
    LET a == <<Abs(x[1]), x[2]>>
        n == RFloor(RAdd(RMul(a, I(100)), Half))
    IN  IF x[1] < 0 THEN R(-n, 100) ELSE R(n, 100)

toFixed1(x) ==
    LET a == <<Abs(x[1]), x[2]>>
        n == RFloor(RAdd(RMul(a, I(10)), Half))
    IN  IF x[1] < 0 THEN R(-n, 10) ELSE R(n, 10)

-----------------------------------------------------------------------------
(* The historical_games table and the feature engine (featureEngine.js).   *)
(* A row is [id, sport, home_team, away_team, start_time, home_score,      *)
(* away_score, home_odds, away_odds]; a missing score is NULL, missing     *)
(* odds are Zero (falsy in JavaScript, like null).                         *)

Nba == "basketball_nba"
Epl == "soccer_epl"

\* SQL comparison: NULL compared with anything is not true.
SqlGt(a, b) == a # NULL /\ b # NULL /\ a > b

\* JavaScript comparison of two score columns: null converts to 0.
JsNum(a) == IF a = NULL THEN 0 ELSE a

JsGt(a, b) == JsNum(a) > JsNum(b)

\* ORDER BY start_time DESC LIMIT k over the selected rows.  Rows of equal
\* start_time keep their insertion order (SQLite leaves it unspecified).
laterFirst(a, b) == a.start_time > b.start_time

OrderByStartDesc(rows, k) ==
    SubSeq(SortSeq(rows, laterFirst), 1, IF Len(rows) < k THEN Len(rows) ELSE k)

includesNba(sport) == sport = Nba

getDefaultTeamStats(sport) ==
    [games |-> 0, wins |-> 0, winPct |-> Half,
     avgScore |-> IF includesNba(sport) THEN I(110) ELSE R(15, 10),
     avgConceded |-> IF includesNba(sport) THEN I(108) ELSE R(13, 10),
     homeWinPct |-> Half, awayWinPct |-> Half]

getTeamStats(h, teamName, sport) ==
    LET atHome(r) == r.home_team = teamName /\ r.sport = sport /\ r.home_score # NULL
        wonAtHome(r) == r.home_team = teamName /\ r.sport = sport
                        /\ SqlGt(r.home_score, r.away_score)
        away(r) == r.away_team = teamName /\ r.sport = sport /\ r.home_score # NULL
        wonAway(r) == r.away_team = teamName /\ r.sport = sport
                      /\ SqlGt(r.away_score, r.home_score)
        homeGames == Len(SelectSeq(h, atHome))
        homeWins == Len(SelectSeq(h, wonAtHome))
        awayGames == Len(SelectSeq(h, away))
        awayWins == Len(SelectSeq(h, wonAway))
        totalGames == homeGames + awayGames
        totalWins == homeWins + awayWins
    IN  IF totalGames = 0 THEN getDefaultTeamStats(sport)
        ELSE [games |-> totalGames, wins |-> totalWins,
              winPct |-> R(totalWins, totalGames),
              avgScore |-> IF includesNba(sport) THEN I(110) ELSE R(15, 10),
              avgConceded |-> IF includesNba(sport) THEN I(108) ELSE R(13, 10),
              homeWinPct |-> IF homeGames > 0 THEN R(homeWins, homeGames) ELSE Half,
              awayWinPct |-> IF awayGames > 0 THEN R(awayWins, awayGames) ELSE Half]

\* The loop of getRecentForm over `recent` (most recent first):
\* acc = [wins, streak, type], type in {"none", "win", "loss"}.
RECURSIVE formLoop(_, _, _, _)
formLoop(recent, teamName, k, acc) ==
    IF k > Len(recent) THEN acc
    ELSE LET game == recent[k]
             won == (game.home_team = teamName /\ JsGt(game.home_score, game.away_score))
                    \/ (game.away_team = teamName /\ JsGt(game.away_score, game.home_score))
             next == IF won
                     THEN [wins |-> acc.wins + 1,
                           streak |-> IF acc.type = "win" THEN acc.streak + 1 ELSE 1,
                           type |-> "win"]
                     ELSE [wins |-> acc.wins,
                           streak |-> IF acc.type = "loss" THEN acc.streak - 1 ELSE -1,
                           type |-> "loss"]
         IN  formLoop(recent, teamName, k + 1, next)

RecentWindow == 10

\* The rows both getRecentForm and getDaysSinceLastGame select.
playedBy(h, teamName, sport) ==
    LET played(r) == (r.home_team = teamName \/ r.away_team = teamName)
                     /\ r.sport = sport /\ r.home_score # NULL
    IN  SelectSeq(h, played)

getRecentForm(h, teamName, sport, gamesCount) ==
    LET recent == OrderByStartDesc(playedBy(h, teamName, sport), gamesCount)
        acc == formLoop(recent, teamName, 1, [wins |-> 0, streak |-> 0, type |-> "none"])
    IN  IF Len(recent) = 0 THEN [winPct |-> Half, streak |-> 0]
        ELSE [winPct |-> R(acc.wins, Len(recent)), streak |-> acc.streak]

getHeadToHead(h, team1, team2, sport) ==
    LET met(r) == ((r.home_team = team1 /\ r.away_team = team2)
                   \/ (r.home_team = team2 /\ r.away_team = team1))
                  /\ r.sport = sport /\ r.home_score # NULL
        won1(r) == (r.home_team = team1 /\ SqlGt(r.home_score, r.away_score))
                   \/ (r.away_team = team1 /\ SqlGt(r.away_score, r.home_score))
        won2(r) == (r.home_team = team1 /\ SqlGt(r.away_score, r.home_score))
                   \/ (r.away_team = team1 /\ SqlGt(r.away_score, r.home_score))
        meetings == SelectSeq(h, met)
    IN  [homeWins |-> Len(SelectSeq(meetings, won1)),
         awayWins |-> Len(SelectSeq(meetings, won2)),
         total |-> Len(meetings)]

DefaultRestDays == 2

MinutesPerDay == 1440

getDaysSinceLastGame(h, teamName, sport, today) ==
    LET last == OrderByStartDesc(playedBy(h, teamName, sport), 1)
    IN  IF Len(last) = 0 THEN I(DefaultRestDays)
        ELSE RMax(Zero, R(today - last[1].start_time, MinutesPerDay))

\* getDefaultFeatures(game, sport)
getDefaultFeatures(sport) ==
    [homeWinPct |-> Half, awayWinPct |-> Half,
     homeAvgScore |-> IF includesNba(sport) THEN I(110) ELSE R(15, 10),
     awayAvgScore |-> IF includesNba(sport) THEN I(108) ELSE R(13, 10),
     homeAvgConceded |-> IF includesNba(sport) THEN I(108) ELSE R(13, 10),
     awayAvgConceded |-> IF includesNba(sport) THEN I(110) ELSE R(15, 10),
     homeWinPctHome |-> Half, awayWinPctAway |-> Half,
     homeRecentWinPct |-> Half, awayRecentWinPct |-> Half,
     h2hHomeWins |-> 0, h2hAwayWins |-> 0, h2hTotal |-> 1,
     homeRestDays |-> I(DefaultRestDays), awayRestDays |-> I(DefaultRestDays),
     homeRestAdvantage |-> Zero, homeStreak |-> 0, awayStreak |-> 0,
     sport |-> sport, valid |-> FALSE]

\* The data accesses of a feature extraction that throw: getDb() (db), and
\* the queries of getTeamStats (stats), getRecentForm (form), getHeadToHead
\* (h2h) and getDaysSinceLastGame (rest).
NoFault == [db |-> FALSE, stats |-> FALSE, form |-> FALSE, h2h |-> FALSE, rest |-> FALSE]
DbFault == [NoFault EXCEPT !.db = TRUE]
QueryFault == [db |-> FALSE, stats |-> TRUE, form |-> TRUE, h2h |-> TRUE, rest |-> TRUE]

\* _extractFeaturesUnsafe.  A throw of getDb() reaches the catch of
\* _extractFeaturesUnsafe, which returns the default features; a throw of a
\* query is caught in the function that runs it, which returns its own
\* default.
extractFeaturesUnsafe(h, game, sport, today, faults) ==
    LET homeStats == IF faults.stats THEN getDefaultTeamStats(sport)
                     ELSE getTeamStats(h, game.home_team, sport)
        awayStats == IF faults.stats THEN getDefaultTeamStats(sport)
                     ELSE getTeamStats(h, game.away_team, sport)
        homeForm == IF faults.form THEN [winPct |-> Half, streak |-> 0]
                    ELSE getRecentForm(h, game.home_team, sport, RecentWindow)
        awayForm == IF faults.form THEN [winPct |-> Half, streak |-> 0]
                    ELSE getRecentForm(h, game.away_team, sport, RecentWindow)
        h2h == IF faults.h2h THEN [homeWins |-> 0, awayWins |-> 0, total |-> 0]
               ELSE getHeadToHead(h, game.home_team, game.away_team, sport)
        homeRest == IF faults.rest THEN I(DefaultRestDays)
                    ELSE getDaysSinceLastGame(h, game.home_team, sport, today)
        awayRest == IF faults.rest THEN I(DefaultRestDays)
                    ELSE getDaysSinceLastGame(h, game.away_team, sport, today)
    IN  IF faults.db THEN getDefaultFeatures(sport) ELSE
        [homeWinPct |-> homeStats.winPct, awayWinPct |-> awayStats.winPct,
         homeAvgScore |-> homeStats.avgScore, awayAvgScore |-> awayStats.avgScore,
         homeAvgConceded |-> homeStats.avgConceded,
         awayAvgConceded |-> awayStats.avgConceded,
         homeWinPctHome |-> homeStats.homeWinPct,
         awayWinPctAway |-> awayStats.awayWinPct,
         homeRecentWinPct |-> homeForm.winPct, awayRecentWinPct |-> awayForm.winPct,
         h2hHomeWins |-> h2h.homeWins, h2hAwayWins |-> h2h.awayWins,
         h2hTotal |-> h2h.total,
         homeRestDays |-> homeRest, awayRestDays |-> awayRest,
         homeRestAdvantage |-> RDiv(RMin(RSub(homeRest, awayRest), I(2)), I(4)),
         homeStreak |-> homeForm.streak, awayStreak |-> awayForm.streak,
         sport |-> sport, valid |-> TRUE]

\* FeatureEngine.cache: a function from the keys present to their entries
\* [data, timestamp].
cacheTimeout == 5

cacheKey(game, sport) == <<sport, game.home_team, game.away_team>>

\* A cache that never answers.
cacheHitNever(c, key, today) == FALSE

\* getCached: a hit is an entry younger than ttlMs.
cacheHit(c, key, today) ==
    key \in DOMAIN c /\ today - c[key].timestamp < cacheTimeout

\* extractFeatures: the vector returned ...
extractFeatures(h, c, game, sport, today, faults) ==
    LET key == cacheKey(game, sport)
    IN  IF cacheHit(c, key, today) THEN c[key].data
        ELSE extractFeaturesUnsafe(h, game, sport, today, faults)

\* ... and the cache after the call that returned `features`.
cacheAfter(c, game, sport, today, features) ==
    LET key == cacheKey(game, sport)
    IN  IF cacheHit(c, key, today) THEN c
        ELSE [k \in DOMAIN c \cup {key} |->
                 IF k = key THEN [data |-> features, timestamp |-> today] ELSE c[k]]

-----------------------------------------------------------------------------
(* The heuristic prediction model (predictionModel.js).                    *)
(* An upcoming game is [id, home_team, away_team, bookmakers]; bookmakers   *)
(* is the sequence of the h2h prices [home, away] quoted for the two sides. *)

NoWeights == [set |-> FALSE, homeAdvantage |-> Zero, baseHomeWinRate |-> Zero]

DefaultOdds == R(190, 100)

\* The loops of getBestOdds: the greatest price quoted for each side.
RECURSIVE bestPrice(_, _, _, _)
bestPrice(bookmakers, side, k, best) ==
    IF k > Len(bookmakers) THEN best
    ELSE bestPrice(bookmakers, side, k + 1,
                   IF RLt(best, bookmakers[k][side]) THEN bookmakers[k][side] ELSE best)

\* bestHome || 1.90: a best price of 0 is falsy.
getBestOdds(game) ==
    LET bestHome == bestPrice(game.bookmakers, "home", 1, Zero)
        bestAway == bestPrice(game.bookmakers, "away", 1, Zero)
    IN  IF Len(game.bookmakers) = 0 THEN [home |-> DefaultOdds, away |-> DefaultOdds]
        ELSE [home |-> IF bestHome = Zero THEN DefaultOdds ELSE bestHome,
              away |-> IF bestAway = Zero THEN DefaultOdds ELSE bestAway]

ClampLow == R(25, 100)
ClampHigh == R(85, 100)

\* The clamp left out of calculateHomeWinProbability.
clampProbabilityNone(probability) == probability

\* Math.max(0.25, Math.min(0.85, probability))
clampProbability(probability) == RMax(ClampLow, RMin(ClampHigh, probability))

MaxStreak == 3

\* this.weights?.homeAdvantage || 0.03
homeAdvantageOf(w) ==
    IF w.set /\ w.homeAdvantage # Zero THEN w.homeAdvantage ELSE R(3, 100)

\* Math.min(features.homeStreak, 3) * 0.01
homeStreakBonus(homeStreak) ==
    RMul(I(IF homeStreak < MaxStreak THEN homeStreak ELSE MaxStreak), R(1, 100))

\* Math.max(features.awayStreak, -3) * -0.01
awayStreakBonus(awayStreak) ==
    RMul(I(IF awayStreak > -MaxStreak THEN awayStreak ELSE -MaxStreak), R(-1, 100))

calculateHomeWinProbability(features, w) ==
    LET base == RAdd(Half, homeAdvantageOf(w))
        formDiff == RMul(RSub(features.homeRecentWinPct, features.awayRecentWinPct),
                         R(15, 100))
        overallDiff == RMul(RSub(features.homeWinPct, features.awayWinPct), R(10, 100))
        homeAdvantage == RMul(RSub(features.homeWinPctHome, features.awayWinPctAway),
                              R(10, 100))
        h2hAdvantage ==
            RMul(R(features.h2hHomeWins - features.h2hAwayWins,
                   IF features.h2hTotal > 1 THEN features.h2hTotal ELSE 1),
                 R(5, 100))
        rest == RMul(features.homeRestAdvantage, R(3, 100))
        homeStreak == homeStreakBonus(features.homeStreak)
        awayStreak == awayStreakBonus(features.awayStreak)
        probability ==
            RAdd(RAdd(RAdd(RAdd(RAdd(RAdd(RAdd(base, formDiff), overallDiff),
                 homeAdvantage), h2hAdvantage), rest), homeStreak), awayStreak)
    IN  clampProbability(probability)

calculateExpectedValue(homeProb, awayProb, odds) ==
    LET homeEV == RSub(RMul(homeProb, odds.home), RSub(One, homeProb))
        awayEV == RSub(RMul(awayProb, odds.away), RSub(One, awayProb))
    IN  RMax(homeEV, awayEV)

\* The record predict returns for the probability homeWinProb, its numbers
\* as parseFloat reads the toFixed(3) strings back.
predictionOf(game, homeWinProb, trained) ==
    LET awayWinProb == RSub(One, homeWinProb)
        homeWins == RLt(awayWinProb, homeWinProb)
        confidence == IF homeWins THEN homeWinProb ELSE awayWinProb
        ev == calculateExpectedValue(homeWinProb, awayWinProb, getBestOdds(game))
    IN  [op |-> "predict", game |-> game.id,
         homeWinProb |-> toFixed3(homeWinProb),
         awayWinProb |-> toFixed3(awayWinProb),
         predictedWinner |-> IF homeWins THEN game.home_team ELSE game.away_team,
         confidence |-> toFixed3(confidence),
         expectedValue |-> toFixed3(ev),
         isTrained |-> trained]

\* predict, from the features extractFeatures returned.
predictFrom(game, features, w, trained) ==
    predictionOf(game, calculateHomeWinProbability(features, w), trained)

MinTrainingGames == 50
TrainingLimit == 500

\* sportsApi.getHistoricalData(sportKey, limit)
getHistoricalData(h, sportKey, limit) ==
    LET stored(r) == r.sport = sportKey /\ r.home_score # NULL
    IN  OrderByStartDesc(SelectSeq(h, stored), limit)

\* The loop of train over the rows it read.
countHomeWins(data) ==
    LET homeWon(r) == JsGt(r.home_score, r.away_score)
    IN  Len(SelectSeq(data, homeWon))

\* The weights train() sets from the rows it read (at least one row).
trainedWeights(data) ==
    LET homeAdvantage == R(countHomeWins(data), Len(data))
    IN  [set |-> TRUE, homeAdvantage |-> RSub(homeAdvantage, Half),
         baseHomeWinRate |-> homeAdvantage]

NoPred == [op |-> "none"]

\* PredictionModel.train(sportKey)
Train(sportKey) ==
    LET historicalData == getHistoricalData(hist, sportKey, TrainingLimit)
    IN  /\ IF Len(historicalData) < MinTrainingGames
           THEN /\ pred' = [op |-> "train", ok |-> FALSE]
                /\ UNCHANGED <<weights, isTrained>>
           ELSE /\ weights' = trainedWeights(historicalData)
                /\ isTrained' = TRUE
                /\ pred' = [op |-> "train", ok |-> TRUE]
        /\ UNCHANGED <<extVars, ledgerVars, storeVars, bt>>

\* PredictionModel.predict(game, sport)
Predict(game, sport) ==
    \E faults \in {NoFault, DbFault, QueryFault} :
    \E features \in {extractFeatures(hist, cache, game, sport, now, faults)} :
        /\ pred' = predictFrom(game, features, weights, isTrained)
        /\ cache' = cacheAfter(cache, game, sport, now, features)
        /\ UNCHANGED <<extVars, weights, isTrained, ledgerVars, hist, now, bt>>

-----------------------------------------------------------------------------
(* The paper-betting ledger (BettingService in bettingService.js).          *)
(* A paper_bets row, joined with its predictions row, is                    *)
(* [id, game_id, stake, odds, selection, predicted_winner, result, profit]; *)
(* bankrollAt is a history field: this.state.bankroll when the stake was    *)
(* sized.  The profit column is NULL until settlement; the model holds Zero.*)

NoRow == [saved |-> FALSE]
NoRet == [op |-> "none"]

minConfidence == R(55, 100)
minExpectedValue == R(2, 100)
maxStakePct == R(5, 100)
kellyFraction == R(25, 100)
MinStake == 1
MaxBets == 3
StartingBankroll == 1000

\* this.state as the constructor sets it.
InitialState ==
    [bankroll |-> I(StartingBankroll), totalBets |-> 0, wins |-> 0, losses |-> 0, pushes |-> 0,
     totalStaked |-> Zero, totalProfit |-> Zero]

\* loadState: the rows of the state table, when present, replace the fields
\* in memory.  (Number.toString / parseFloat and JSON round-trip a number.)
loadState(m, d) ==
    IF d.saved
    THEN [bankroll |-> d.bankroll, totalBets |-> d.totalBets, wins |-> d.wins,
          losses |-> d.losses, pushes |-> d.pushes, totalStaked |-> d.totalStaked,
          totalProfit |-> d.totalProfit]
    ELSE m

\* saveState: both rows written from the fields in memory.
saveState(m) ==
    [saved |-> TRUE, bankroll |-> m.bankroll, totalBets |-> m.totalBets,
     wins |-> m.wins, losses |-> m.losses, pushes |-> m.pushes,
     totalStaked |-> m.totalStaked, totalProfit |-> m.totalProfit]

\* The stake without the cap at bankroll * maxStakePct.
calculateKellyStakeUncapped(probability, odds, bankroll) ==
    LET b == RSub(odds, One)
        q == RSub(One, probability)
    IN  IF RLe(b, Zero) THEN Zero
        ELSE RMul(bankroll, RMax(Zero, RMul(RDiv(RSub(RMul(b, probability), q), b),
                                            kellyFraction)))

\* The stake at full Kelly, the fraction kellyFraction left out.
calculateKellyStakeFull(probability, odds, bankroll) ==
    LET b == RSub(odds, One)
        q == RSub(One, probability)
    IN  IF RLe(b, Zero) THEN Zero
        ELSE RMin(RMul(bankroll, RMax(Zero, RDiv(RSub(RMul(b, probability), q), b))),
                  RMul(bankroll, maxStakePct))

calculateKellyStake(probability, odds, bankroll) ==
    LET b == RSub(odds, One)
        p == probability
        q == RSub(One, p)
    IN  IF RLe(b, Zero) THEN Zero
        ELSE LET kelly == RDiv(RSub(RMul(b, p), q), b)
                 fractionalKelly == RMul(kelly, kellyFraction)
                 maxStake == RMul(bankroll, maxStakePct)
                 stake == RMul(bankroll, RMax(Zero, fractionalKelly))
             IN  RMin(stake, maxStake)

\* The text a NULL result would read as; rows are inserted with 'pending'.
SqlNull == "NULL"

\* SELECT id FROM paper_bets WHERE game_id = ? AND result IS NULL
existingBet(b, game_id) ==
    \E k \in DOMAIN b : b[k].game_id = game_id /\ b[k].result = SqlNull

\* The two INSERTs of placeBets.
newBet(b, game, prediction, stake, selectionOdds, selection, bankroll) ==
    [id |-> Len(b) + 1, game_id |-> game.id, stake |-> stake,
     odds |-> selectionOdds, selection |-> selection,
     predicted_winner |-> prediction.predictedWinner,
     result |-> "pending", profit |-> Zero, bankrollAt |-> bankroll]

\* No minimum stake.
belowMinimumNever(stake) == FALSE

\* stake < 1
belowMinimum(stake) == RLt(stake, I(MinStake))

\* The rest of a turn of the loop of placeBets once the prediction is
\* there: the thresholds, the stake, the INSERTs and the update of the state.
decideBet(st, game, prediction, odds) ==
    LET skip == [st EXCEPT !.skipped = @ + 1]
        homePick == prediction.predictedWinner = game.home_team
        selection == IF homePick THEN game.home_team ELSE game.away_team
        selectionOdds == IF homePick THEN odds.home ELSE odds.away
        selectionProb == IF homePick THEN prediction.homeWinProb
                         ELSE prediction.awayWinProb
        stake == calculateKellyStake(selectionProb, selectionOdds, st.mem.bankroll)
    IN  IF RLt(prediction.confidence, minConfidence) THEN skip
        ELSE IF RLt(prediction.expectedValue, minExpectedValue) THEN skip
        ELSE IF belowMinimum(stake) THEN skip
        ELSE [st EXCEPT
                !.bets = Append(@, newBet(st.bets, game, prediction, stake,
                                          selectionOdds, selection, st.mem.bankroll)),
                !.mem = [@ EXCEPT !.bankroll = RSub(@, stake),
                                  !.totalBets = @ + 1,
                                  !.totalStaked = RAdd(@, stake)],
                !.placed = @ + 1]

\* The call of predictionModel.predict in placeBets: the features come
\* through the cache of the feature engine.
predictAndDecide(st, game, sportKey, features) ==
    decideBet([st EXCEPT !.cache = cacheAfter(st.cache, game, sportKey, now, features)],
              game, predictFrom(game, features, weights, isTrained), getBestOdds(game))

\* One turn of the loop of placeBets over the offered games; st holds the
\* state in memory, the paper_bets table, the feature cache and the counters
\* of `results`.
placeOne(st, game, sportKey) ==
    IF existingBet(st.bets, game.id) THEN [st EXCEPT !.skipped = @ + 1]
    ELSE predictAndDecide(st, game, sportKey,
                          extractFeatures(hist, st.cache, game, sportKey, now, NoFault))

RECURSIVE placeLoop(_, _, _, _)
placeLoop(offered, k, st, sportKey) ==
    IF k > Len(offered) THEN st
    ELSE placeLoop(offered, k + 1, placeOne(st, offered[k], sportKey), sportKey)

\* BettingService.placeBets(); `offered` is what getGamesWithOdds returns for
\* the sport that has games.
PlaceBets(offered, sportKey) ==
    /\ Len(bets) + Len(offered) <= MaxBets
    /\ \E st \in {placeLoop(offered, 1,
                         [mem |-> loadState(mem, db), bets |-> bets, cache |-> cache,
                          placed |-> 0, skipped |-> 0], sportKey)} :
        /\ mem' = st.mem
        /\ db' = saveState(st.mem)
        /\ bets' = st.bets
        /\ cache' = st.cache
        /\ ret' = [op |-> "placeBets", offered |-> offered,
                   placed |-> st.placed, skipped |-> st.skipped]
    /\ UNCHANGED <<extVars, modelVars, games, hist, now, bt>>

\* The query of settleBets without its test of pb.result.
pendingBetsAnyResult(b, g) ==
    LET due(bet) == bet.game_id \in DOMAIN g /\ g[bet.game_id].status = "completed"
    IN  SelectSeq(b, due)

\* The rows the query of settleBets returns, in table order: pending bets
\* whose game row exists and is completed.
pendingBets(b, g) ==
    LET due(bet) == /\ bet.result = "pending"
                    /\ bet.game_id \in DOMAIN g
                    /\ g[bet.game_id].status = "completed"
    IN  SelectSeq(b, due)

\* The credit without the stake coming back.
creditBankrollProfitOnly(bankroll, stake, profit) == RAdd(bankroll, profit)

\* this.state.bankroll += bet.stake + profit
creditBankroll(bankroll, stake, profit) == RAdd(bankroll, RAdd(stake, profit))

\* The payout taken for the profit of a winning bet.
winProfitGross(stake, odds) == RMul(stake, odds)

\* bet.stake * (bet.odds - 1)
winProfit(stake, odds) == RMul(stake, RSub(odds, One))

\* One turn of the loop of settleBets; when `fails`, the UPDATE throws.
settleOne(st, bet, g, fails) ==
    LET game == g[bet.game_id]
        result == IF JsGt(game.home_score, game.away_score) THEN game.home_team
                  ELSE IF JsGt(game.away_score, game.home_score) THEN game.away_team
                  ELSE "push"
        profit == IF result = "push" THEN Zero
                  ELSE IF result = bet.selection
                       THEN winProfit(bet.stake, bet.odds)
                       ELSE RNeg(bet.stake)
        counted == [st.mem EXCEPT
                      !.pushes = IF result = "push" THEN @ + 1 ELSE @,
                      !.wins = IF result # "push" /\ result = bet.selection
                               THEN @ + 1 ELSE @,
                      !.losses = IF result # "push" /\ result # bet.selection
                                 THEN @ + 1 ELSE @]
    IN  IF fails THEN [st EXCEPT !.mem = counted, !.threw = TRUE]
        ELSE [st EXCEPT
                !.bets = [@ EXCEPT ![bet.id] =
                            [@ EXCEPT !.result = result, !.profit = profit]],
                !.mem = [counted EXCEPT
                            !.bankroll = creditBankroll(@, bet.stake, profit),
                            !.totalProfit = RAdd(@, profit)],
                !.settled = @ + 1]

RECURSIVE settleLoop(_, _, _, _, _)
settleLoop(pending, k, st, g, failAt) ==
    IF k > Len(pending) \/ st.threw THEN st
    ELSE settleLoop(pending, k + 1, settleOne(st, pending[k], g, k = failAt), g, failAt)

\* BettingService.settleBets().  failAt = 0: every statement succeeds;
\* failAt = k: the UPDATE of the k-th pending bet throws, and the exception
\* leaves settleBets before saveState.
SettleBets(failAt) ==
    /\ failAt <= Len(pendingBets(bets, games))
    /\ \E st \in {settleLoop(pendingBets(bets, games), 1,
                             [mem |-> loadState(mem, db), bets |-> bets,
                              settled |-> 0, threw |-> FALSE], games, failAt)} :
        /\ mem' = st.mem
        /\ db' = IF st.threw THEN db ELSE saveState(st.mem)
        /\ bets' = st.bets
        /\ ret' = [op |-> "settleBets", settled |-> st.settled, threw |-> st.threw]
    /\ UNCHANGED <<extVars, modelVars, games, hist, now, cache, bt>>

\* BettingService.getStats()
GetStats ==
    \E m \in {loadState(mem, db)} :
        LET total == m.wins + m.losses + m.pushes
        IN  /\ mem' = m
            /\ ret' = [op |-> "getStats", bankroll |-> m.bankroll, totalBets |-> total,
                       wins |-> m.wins, losses |-> m.losses, pushes |-> m.pushes,
                       winRate |-> IF total > 0 THEN toFixed1(R(m.wins * 100, total))
                                   ELSE Zero,
                       totalStaked |-> m.totalStaked, totalProfit |-> m.totalProfit,
                       roi |-> IF RLt(Zero, m.totalStaked)
                               THEN toFixed2(RMul(RDiv(m.totalProfit, m.totalStaked),
                                                  I(100)))
                               ELSE Zero,
                       avgStake |-> IF total > 0 THEN RDiv(m.totalStaked, I(total))
                                    ELSE Zero]
            /\ UNCHANGED <<extVars, modelVars, db, bets, games, storeVars, bt>>

\* A direct call of calculateKellyStake on a service nothing else has used.
CalculateKellyStake(probability, odds, bankroll) ==
    /\ ret = NoRet
    /\ ret' = [op |-> "calculateKellyStake", probability |-> probability,
               odds |-> odds, bankroll |-> bankroll,
               stake |-> calculateKellyStake(probability, odds, bankroll)]
    /\ UNCHANGED <<extVars, modelVars, mem, db, bets, games, storeVars, bt>>

\* The games table changes outside BettingService: a scheduled game is
\* marked completed, with the scores recorded for it or with none.
CompleteGame(id, home_score, away_score) ==
    /\ id \in DOMAIN games
    /\ games[id].status = "scheduled"
    /\ games' = [games EXCEPT ![id] = [@ EXCEPT !.status = "completed",
                                                 !.home_score = home_score,
                                                 !.away_score = away_score]]
    /\ UNCHANGED <<extVars, modelVars, mem, db, bets, ret, storeVars, bt>>

-----------------------------------------------------------------------------
(* placeBets in the API server, from await to await.  The server has one    *)
(* BettingService (mem is its this.state); POST /api/v1/bets awaits the     *)
(* provider once and the prediction model once per game, and a request for  *)
(* GET /api/v1/stats that arrives meanwhile runs getStats at the await.     *)
(* cycle = [pc, offered, k, placed, skipped] are the locals of the call;    *)
(* start (this.state as loaded) and before (the number of paper_bets rows   *)
(* then) are history fields.                                                *)

CycleIdle == [pc |-> "idle"]

\* placeBets up to the await of getGamesWithOdds, which returns `offered`.
PlaceStart(offered) ==
    /\ cycle.pc = "idle"
    /\ Len(bets) + Len(offered) <= MaxBets
    /\ mem' = loadState(mem, db)
    /\ cycle' = [pc |-> "running", offered |-> offered, k |-> 1, placed |-> 0,
                 skipped |-> 0, start |-> loadState(mem, db), before |-> Len(bets)]
    /\ UNCHANGED <<procs, ml, modelVars, db, bets, games, ret, storeVars, bt>>

\* The prediction awaited for offered[k] arrives: the rest of the turn of
\* the loop, on this.state as it is by now.
PlaceTurn(sportKey) ==
    /\ cycle.pc = "running"
    /\ cycle.k <= Len(cycle.offered)
    /\ \E st \in {placeOne([mem |-> mem, bets |-> bets, cache |-> cache,
                             placed |-> cycle.placed, skipped |-> cycle.skipped],
                            cycle.offered[cycle.k], sportKey)} :
          /\ mem' = st.mem
          /\ bets' = st.bets
          /\ cache' = st.cache
          /\ cycle' = [cycle EXCEPT !.k = @ + 1, !.placed = st.placed,
                                    !.skipped = st.skipped]
    /\ UNCHANGED <<procs, ml, modelVars, db, games, ret, hist, now, bt>>

\* After the loop: saveState() and the return of the counters.
PlaceEnd ==
    /\ cycle.pc = "running"
    /\ cycle.k > Len(cycle.offered)
    /\ db' = saveState(mem)
    /\ ret' = [op |-> "placeBets", offered |-> cycle.offered,
               placed |-> cycle.placed, skipped |-> cycle.skipped]
    /\ cycle' = CycleIdle
    /\ UNCHANGED <<procs, ml, modelVars, mem, bets, games, storeVars, bt>>

-----------------------------------------------------------------------------
(* The backtest replay (BacktestService in bettingService.js).              *)
(* bt holds the locals of runBacktest between the awaits of its loop:       *)
(* options, games (the rows loaded), i (the index of the next row),         *)
(* bankroll, bets, results (this.results), features (those of the row       *)
(* evaluated last) and, once it has returned, what it returned.             *)

MinBacktestGames == 50
ReportedBets == 20
BaseStakePct == R(2, 100)
Vig == R(95, 100)

\* The query of runBacktest; a null startDate or endDate adds no condition.
backtestQuery(h, sportKey, startDate, endDate, sampleSize) ==
    LET wanted(r) == /\ r.sport = sportKey
                     /\ r.home_score # NULL
                     /\ (startDate # NULL => r.start_time >= startDate)
                     /\ (endDate # NULL => r.start_time <= endDate)
    IN  OrderByStartDesc(SelectSeq(h, wanted), sampleSize)

\* The test with the minimum itself rejected.
tooFewGamesInclusive(n) == n <= MinBacktestGames

\* games.length < 50
tooFewGames(n) == n < MinBacktestGames

estimateOdds(homeProb, awayProb, actualHomeOdds, actualAwayOdds) ==
    IF actualHomeOdds # Zero /\ actualAwayOdds # Zero
    THEN [home |-> actualHomeOdds, away |-> actualAwayOdds]
    ELSE [home |-> RMul(RDiv(One, homeProb), Vig),
          away |-> RMul(RDiv(One, awayProb), Vig)]

calculateEV(homeProb, awayProb, odds) ==
    LET homeEV == RSub(RMul(homeProb, odds.home), RSub(One, homeProb))
        awayEV == RSub(RMul(awayProb, odds.away), RSub(One, awayProb))
    IN  RMax(homeEV, awayEV)

\* this.results as the constructor and the reset of runBacktest set it.
resetResults(avgOdds, sampleSize) ==
    [totalBets |-> 0, wins |-> 0, losses |-> 0, pushes |-> 0,
     totalStaked |-> Zero, totalProfit |-> Zero, roi |-> Zero, winRate |-> Zero,
     avgOdds |-> avgOdds, byConfidence |-> <<>>, sampleSize |-> sampleSize]

NoFeatures == [valid |-> FALSE]
NoReport == [returned |-> "none"]

\* The update with a loss not deducted.
bankrollAfterBetNoLoss(bankroll, profit) == RAdd(bankroll, RMax(profit, Zero))

\* bankroll += profit
bankrollAfterBet(bankroll, profit) == RAdd(bankroll, profit)

\* Math.floor(confidence * 10) / 10
confBandOf(confidence) == R(RFloor(RMul(confidence, I(10))), 10)

\* The update with the band started afresh at every bet.
byConfidenceAfterReset(byConfidence, confBand, profit, won) ==
    [b \in DOMAIN byConfidence \cup {confBand} |->
        IF b = confBand
        THEN [bets |-> 1, profit |-> profit, wins |-> IF won THEN 1 ELSE 0]
        ELSE byConfidence[b]]

\* The update of results.byConfidence for one bet.
byConfidenceAfter(byConfidence, confBand, profit, won) ==
    LET old == IF confBand \in DOMAIN byConfidence THEN byConfidence[confBand]
               ELSE [bets |-> 0, wins |-> 0, profit |-> Zero]
        new == [bets |-> old.bets + 1, profit |-> RAdd(old.profit, profit),
                wins |-> IF won THEN old.wins + 1 ELSE old.wins]
    IN  [b \in DOMAIN byConfidence \cup {confBand} |->
            IF b = confBand THEN new ELSE byConfidence[b]]

\* The bet simulated on `game` at the odds and stake given: the locals after
\* it.
recordBet(run, game, homePick, confidence, selectionOdds, stake) ==
    LET predictedWinner == IF homePick THEN game.home_team ELSE game.away_team
        result == IF JsGt(game.home_score, game.away_score) THEN game.home_team
                  ELSE IF JsGt(game.away_score, game.home_score) THEN game.away_team
                  ELSE "push"
        won == result # "push" /\ result = predictedWinner
        profit == IF result = "push" THEN Zero
                  ELSE IF won THEN RMul(stake, RSub(selectionOdds, One))
                  ELSE RNeg(stake)
        r == run.results
    IN  [run EXCEPT
           !.bankroll = bankrollAfterBet(@, profit),
           !.bets = Append(@, [home_team |-> game.home_team,
                               away_team |-> game.away_team,
                               prediction |-> predictedWinner, result |-> result,
                               confidence |-> confidence, odds |-> selectionOdds,
                               stake |-> stake, profit |-> profit,
                               bankroll |-> bankrollAfterBet(run.bankroll, profit)]),
           !.results =
               [r EXCEPT
                  !.pushes = IF result = "push" THEN @ + 1 ELSE @,
                  !.wins = IF won THEN @ + 1 ELSE @,
                  !.losses = IF result # "push" /\ ~won THEN @ + 1 ELSE @,
                  !.totalBets = @ + 1,
                  !.totalStaked = RAdd(@, stake),
                  !.totalProfit = RAdd(@, profit),
                  !.avgOdds = RDiv(RAdd(RMul(@, I(r.totalBets)), selectionOdds),
                                   I(r.totalBets + 1)),
                  !.byConfidence = byConfidenceAfter(@, confBandOf(confidence),
                                                     profit, won)]]

\* The whole bankroll staked.
backtestStakeAllIn(bankroll, fraction) == bankroll

\* bankroll * 0.02 * kellyFraction (the option of the run)
backtestStake(bankroll, fraction) ==
    RMul(RMul(bankroll, BaseStakePct), fraction)

\* The loop without its thresholds: a bet on every game.
considerBetAlways(run, game, homeProb, odds) ==
    LET homePick == RLt(RSub(One, homeProb), homeProb)
    IN  recordBet(run, game, homePick,
                  IF homePick THEN homeProb ELSE RSub(One, homeProb),
                  IF homePick THEN odds.home ELSE odds.away,
                  backtestStake(run.bankroll, run.options.kellyFraction))

\* The thresholds of the loop, for the probability and the odds of `game`.
considerBet(run, game, homeProb, odds) ==
    LET awayProb == RSub(One, homeProb)
        homePick == RLt(awayProb, homeProb)
        confidence == IF homePick THEN homeProb ELSE awayProb
    IN  IF RLt(confidence, run.options.minConfidence) THEN run
        ELSE IF RLt(calculateEV(homeProb, awayProb, odds), run.options.minExpectedValue)
             THEN run
        ELSE recordBet(run, game, homePick, confidence,
                       IF homePick THEN odds.home ELSE odds.away,
                       backtestStake(run.bankroll, run.options.kellyFraction))

\* The odds of the loop, for the probability of `game`.
priceBet(run, game, homeProb) ==
    considerBet(run, game, homeProb,
                estimateOdds(homeProb, RSub(One, homeProb), game.home_odds,
                             game.away_odds))

\* The body of the loop of runBacktest for `game`, its features extracted:
\* the locals after it.
simulateBet(run, game, features) ==
    priceBet([run EXCEPT !.i = @ + 1, !.features = features], game,
             calculateHomeWinProbability(features, weights))

\* bets.slice(-20)
lastBets(b) == SubSeq(b, IF Len(b) > ReportedBets THEN Len(b) - ReportedBets + 1 ELSE 1,
                      Len(b))

\* The final metrics of runBacktest and the report it returns.
reportOf(run) ==
    LET r == run.results
        total == r.wins + r.losses + r.pushes
    IN  [returned |-> "report",
         results |-> [r EXCEPT
            !.winRate = IF total > 0 THEN RMul(R(r.wins, total), I(100)) ELSE Zero,
            !.roi = IF RLt(Zero, r.totalStaked)
                    THEN RMul(RDiv(r.totalProfit, r.totalStaked), I(100)) ELSE Zero],
         bets |-> lastBets(run.bets)]

\* runBacktest(sportKey, options), from its call to the first await of its
\* loop, or to `return null`.
StartBacktest(sportKey, options) ==
    /\ bt.pc = "idle"
    /\ \E loaded \in {backtestQuery(hist, sportKey, options.startDate, options.endDate,
                                    options.sampleSize)} :
          bt' = [pc |-> IF tooFewGames(Len(loaded)) THEN "done" ELSE "running",
                 sportKey |-> sportKey, options |-> options, games |-> loaded,
                 i |-> 1, bankroll |-> I(StartingBankroll), bets |-> <<>>,
                 results |-> IF tooFewGames(Len(loaded)) THEN resetResults(Zero, 0)
                             ELSE resetResults(R(19, 10), Len(loaded)),
                 features |-> NoFeatures,
                 report |-> IF tooFewGames(Len(loaded)) THEN [returned |-> "null"]
                            ELSE NoReport]
    /\ UNCHANGED <<extVars, modelVars, ledgerVars, storeVars>>

\* One turn of the loop: the features of games[i] arrive and the bet on it
\* is simulated.
BacktestGame ==
    /\ bt.pc = "running"
    /\ bt.i <= Len(bt.games)
    /\ \E features \in {extractFeatures(hist, cache, bt.games[bt.i], bt.sportKey,
                                        now, NoFault)} :
          /\ bt' = simulateBet(bt, bt.games[bt.i], features)
          /\ cache' = cacheAfter(cache, bt.games[bt.i], bt.sportKey, now, features)
    /\ UNCHANGED <<extVars, modelVars, ledgerVars, hist, now>>

\* The loop has ended: the final metrics, and the report returned.
FinishBacktest ==
    /\ bt.pc = "running"
    /\ bt.i > Len(bt.games)
    /\ bt' = [bt EXCEPT !.pc = "done", !.report = reportOf(bt)]
    /\ UNCHANGED <<extVars, modelVars, ledgerVars, storeVars>>

-----------------------------------------------------------------------------
(* Histories and upcoming games the specifications start from.             *)

Row(i, sport, home, away, day, hs, as, ho, ao) ==
    [id |-> i, sport |-> sport, home_team |-> home, away_team |-> away,
     start_time |-> day * MinutesPerDay, home_score |-> hs, away_score |-> as,
     home_odds |-> ho, away_odds |-> ao]

Evens == R(2, 1)

\* n league games A (home) v B, one a day, rows in chronological order: draws,
\* but for two recent wins of B and one early win of A.
DrawHeavy(n) ==
    [i \in 1..n |->
        IF i \in {n - 1, n - 2} THEN Row(i, Epl, "A", "B", i, 1, 2, Evens, Evens)
        ELSE IF i = 5 THEN Row(i, Epl, "A", "B", i, 2, 1, Evens, Evens)
        ELSE Row(i, Epl, "A", "B", i, 1, 1, Evens, Evens)]

\* DrawHeavy with a row of another sport, a row without scores, a row with
\* odds below 1, and every seventh game C v A without recorded odds.
Mixed(n) ==
    [i \in 1..n |->
        IF i = 3 THEN Row(i, Nba, "A", "B", i, 101, 99, Evens, Evens)
        ELSE IF i = 4 THEN Row(i, Epl, "A", "B", i, NULL, NULL, Evens, Evens)
        ELSE IF i = 6 THEN Row(i, Epl, "A", "B", i, 1, 1, Half, Half)
        ELSE IF i % 7 = 0 THEN Row(i, Epl, "C", "A", i, 1, 1, Zero, Zero)
        ELSE DrawHeavy(n)[i]]

\* DrawHeavy with a side D that won its first game, at home to B, and draws
\* at B every ninth day.
TwoTier(n) ==
    [i \in 1..n |->
        IF i = 1 THEN Row(i, Epl, "D", "B", i, 2, 1, Evens, Evens)
        ELSE IF i % 9 = 0 THEN Row(i, Epl, "B", "D", i, 1, 1, Evens, Evens)
        ELSE DrawHeavy(n)[i]]

\* n games, A and B hosting in turn, the host winning 9 games in every 16.
HomeEdge(n) ==
    [i \in 1..n |->
        LET home == IF i % 2 = 1 THEN "A" ELSE "B"
            away == IF i % 2 = 1 THEN "B" ELSE "A"
        IN  IF i % 16 \in 1..9 THEN Row(i, Epl, home, away, i, 2, 1, Evens, Evens)
            ELSE Row(i, Epl, home, away, i, 1, 2, Evens, Evens)]

\* E beats F at home n times.
Dominant(n) == [i \in 1..n |-> Row(i, Epl, "E", "F", i, 3, 1, Evens, Evens)]

\* Date.now() for a history: the day after its last game.
NowAfter(h) == (Len(h) + 1) * MinutesPerDay

Upcoming(id, home, away, bookmakers) ==
    [id |-> id, home_team |-> home, away_team |-> away, bookmakers |-> bookmakers]

BookLists ==
    { <<>>,
      <<[home |-> R(180, 100), away |-> Evens], [home |-> R(210, 100), away |-> Zero]>> }

Fixtures ==
    { <<"A", "B">>, <<"E", "F">>, <<"F", "E">>, <<"X", "Y">> }

UpcomingGames ==
    { Upcoming(f, f[1], f[2], b) : f \in Fixtures, b \in BookLists }

ExtraGames == 2
DominantGames == 3

-----------------------------------------------------------------------------
(* The settlement pass of a process, statement by statement.                *)

(* Two runs of `node cli.js settle` share the database file; each has its   *)
(* own BettingService, and the statements of the two passes interleave.     *)
(* procs[p] holds the pass of process p: pc, this.state (mem), the rows its *)
(* query returned (pending), the index of the next row (k) and `settled`.   *)

Procs == {1, 2}

ProcsIdle == [p \in Procs |-> [pc |-> "idle"]]

\* settleBets in process p: getDb() and loadState(), in a process whose
\* service was just constructed.
SettleLoad(p) ==
    /\ procs[p].pc = "idle"
    /\ procs' = [procs EXCEPT ![p] =
                    [pc |-> "loaded", mem |-> loadState(InitialState, db)]]
    /\ UNCHANGED <<ml, cycle, modelVars, ledgerVars, storeVars, bt>>

\* The query for the pending bets of completed games.
SettleQuery(p) ==
    /\ procs[p].pc = "loaded"
    /\ procs' = [procs EXCEPT ![p] =
                    [pc |-> "settling", mem |-> procs[p].mem,
                     pending |-> pendingBets(bets, games), k |-> 1, settled |-> 0]]
    /\ UNCHANGED <<ml, cycle, modelVars, ledgerVars, storeVars, bt>>

\* One turn of the loop: the outcome, the counters, the UPDATE of the row
\* and the credit to this.state.
SettleNext(p) ==
    /\ procs[p].pc = "settling"
    /\ procs[p].k <= Len(procs[p].pending)
    /\ \E st \in {settleOne([mem |-> procs[p].mem, bets |-> bets,
                              settled |-> procs[p].settled, threw |-> FALSE],
                             procs[p].pending[procs[p].k], games, FALSE)} :
          /\ bets' = st.bets
          /\ procs' = [procs EXCEPT ![p] =
                          [@ EXCEPT !.mem = st.mem, !.settled = st.settled,
                                    !.k = @ + 1]]
    /\ UNCHANGED <<ml, cycle, modelVars, mem, db, games, ret, storeVars, bt>>

\* After the loop: saveState() and the return of `settled`.
SettleSave(p) ==
    /\ procs[p].pc = "settling"
    /\ procs[p].k > Len(procs[p].pending)
    /\ db' = saveState(procs[p].mem)
    /\ ret' = [op |-> "settleBets", settled |-> procs[p].settled, threw |-> FALSE]
    /\ procs' = [procs EXCEPT ![p] = [pc |-> "idle"]]
    /\ UNCHANGED <<ml, cycle, modelVars, mem, bets, games, storeVars, bt>>

-----------------------------------------------------------------------------
(* The trainable linear model (MLModel in predictionEngine.js).             *)
(* ml = [isTrained, weights, bias, file, ret]: weights holds the eight      *)
(* coefficients predict reads (homeWinPct ... streakAdvantage), file is     *)
(* what save() wrote, ret the value the last call returned.  A number is a  *)
(* rational, NaN, or the null JSON writes for NaN.                          *)

NaN == <<0, 0>>
JsNull == <<0, -1>>

\* A value in arithmetic: null converts to 0, undefined to NaN.
ToNumber(x) == IF x = JsNull THEN Zero ELSE x

JAdd(a, b) ==
    IF ToNumber(a) = NaN \/ ToNumber(b) = NaN THEN NaN
    ELSE RAdd(ToNumber(a), ToNumber(b))

JMul(a, b) ==
    IF ToNumber(a) = NaN \/ ToNumber(b) = NaN THEN NaN
    ELSE RMul(ToNumber(a), ToNumber(b))

\* 1 / (1 + Math.exp(-x)) at x = 0, 1/2, 1, ..., 6, in ten-thousandths.
SigmoidTable ==
    <<5000, 6225, 7311, 8176, 8808, 9241, 9526, 9707, 9820, 9890, 9933, 9959, 9975>>

\* sigmoid for x >= 0: the table, interpolated linearly between its points
\* (within 0.003 of the function) and constant beyond the last one.
sigmoidUpper(x) ==
    LET k == RFloor(RMul(x, I(2)))
        frac == RSub(RMul(x, I(2)), I(k))
    IN  IF k + 1 >= Len(SigmoidTable) THEN R(SigmoidTable[Len(SigmoidTable)], 10000)
        ELSE RAdd(R(SigmoidTable[k + 1], 10000),
                  RMul(frac, R(SigmoidTable[k + 2] - SigmoidTable[k + 1], 10000)))

\* MLModel.sigmoid
sigmoid(x) ==
    IF x = NaN THEN NaN
    ELSE IF x[1] < 0 THEN RSub(One, sigmoidUpper(RNeg(x)))
    ELSE sigmoidUpper(x)

\* Math.max(-1, Math.min(1, x))
clampUnit(x) == RMax(I(-1), RMin(One, x))

\* x || 0.5
orHalf(x) == IF x = Zero THEN Half ELSE x

\* MLModel.normalizeFeatures, for a vector of the feature engine.
normalizeFeatures(features) ==
    [homeWinPct |-> orHalf(features.homeWinPct),
     awayWinPct |-> orHalf(features.awayWinPct),
     homeRecentForm |-> orHalf(features.homeRecentWinPct),
     awayRecentForm |-> orHalf(features.awayRecentWinPct),
     homeAdvantage |-> RMul(RSub(features.homeWinPctHome, Half), I(2)),
     awayAdvantage |-> RMul(RSub(features.awayWinPctAway, Half), I(2)),
     h2hAdvantage |-> R(features.h2hHomeWins - features.h2hAwayWins,
                        IF features.h2hTotal = 0 THEN 1 ELSE features.h2hTotal),
     restAdvantage |-> clampUnit(features.homeRestAdvantage),
     streakAdvantage |-> clampUnit(R(features.homeStreak - features.awayStreak, 3))]

\* The coefficients, all at the value w.
MlWeights(w) ==
    [homeWinPct |-> w, awayWinPct |-> w, homeRecentForm |-> w, awayRecentForm |-> w,
     homeAdvantage |-> w, h2hAdvantage |-> w, restAdvantage |-> w,
     streakAdvantage |-> w]

NoFile == [exists |-> FALSE]

\* MLModel as constructed: weights = {}, bias = 0.
MlInit ==
    [isTrained |-> FALSE, weights |-> MlWeights(NaN), bias |-> Zero,
     file |-> NoFile, ret |-> [op |-> "none"]]

MinMlSamples == 10

\* The rows train() keeps: both scores truthy.
labeledSamples(historicalData) ==
    LET labeled(game) == /\ game.home_score # NULL /\ game.home_score # 0
                         /\ game.away_score # NULL /\ game.away_score # 0
    IN  SelectSeq(historicalData, labeled)

\* X.length < 10
tooFewSamples(X) == Len(X) < MinMlSamples

\* The test one epoch late.
earlyStopLate(noImprovement, earlyStop) == noImprovement > earlyStop

\* noImprovement >= earlyStop
earlyStopReached(noImprovement, earlyStop) == noImprovement >= earlyStop

\* The epochs of the training loop from `epoch` on, each ending with the
\* in-sample accuracy `accuracy`: the number of passes run and the best
\* accuracy when the loop is left.
RECURSIVE trainingLoop(_, _, _, _, _)
trainingLoop(epoch, bestAccuracy, noImprovement, accuracy, options) ==
    IF epoch >= options.epochs
    THEN [passes |-> epoch, bestAccuracy |-> bestAccuracy]
    ELSE IF RLt(bestAccuracy, accuracy)
         THEN trainingLoop(epoch + 1, accuracy, 0, accuracy, options)
    ELSE IF earlyStopReached(noImprovement + 1, options.earlyStop)
         THEN [passes |-> epoch + 1, bestAccuracy |-> bestAccuracy]
    ELSE trainingLoop(epoch + 1, bestAccuracy, noImprovement + 1, accuracy, options)

\* The training loop.  this.weights is read and written under the snake_case
\* names of featureNames, which the initialisation did not set: the first
\* forward pass adds undefined to the prediction, the error is NaN and so is
\* the bias from the first sample on, and the coefficients predict reads
\* stay at their initial values w0.  sigmoid(NaN) > 0.5 is false, so every
\* sample is classified as a home loss: the accuracy of each epoch is the
\* share of the samples the home side did not win.  passes is a history
\* field: the number of epochs the loop ran.
trainedModel(m, X, w0, options) ==
    LET homeLost(game) == ~(game.home_score > game.away_score)
        loop == trainingLoop(0, Zero, 0, R(Len(SelectSeq(X, homeLost)), Len(X)), options)
    IN  [m EXCEPT !.isTrained = TRUE, !.weights = MlWeights(w0), !.bias = NaN,
                  !.ret = [op |-> "train", ok |-> TRUE, samples |-> Len(X),
                           accuracy |-> loop.bestAccuracy, epochs |-> options.epochs,
                           passes |-> loop.passes]]

\* MLModel.train(historicalData, options); w0 is what Math.random() * 0.1
\* gave the coefficients.
MlTrain(historicalData, w0, options) ==
    /\ \E X \in {labeledSamples(historicalData)} :
          ml' = IF tooFewSamples(X)
                THEN [ml EXCEPT !.ret = [op |-> "train", ok |-> FALSE,
                                         samples |-> Len(X)]]
                ELSE trainedModel(ml, X, w0, options)
    /\ UNCHANGED <<procs, cycle, modelVars, ledgerVars, storeVars, bt>>

\* toFixed(3) of a number or NaN.
toFixed3J(x) == IF x = NaN THEN NaN ELSE toFixed3(x)

\* The score of predict.
scoreOf(m, n) ==
    JAdd(JAdd(JAdd(JAdd(JAdd(JAdd(JAdd(JAdd(m.bias,
        JMul(n.homeWinPct, m.weights.homeWinPct)),
        JMul(n.awayWinPct, m.weights.awayWinPct)),
        JMul(n.homeRecentForm, m.weights.homeRecentForm)),
        JMul(n.awayRecentForm, m.weights.awayRecentForm)),
        JMul(n.homeAdvantage, m.weights.homeAdvantage)),
        JMul(n.h2hAdvantage, m.weights.h2hAdvantage)),
        JMul(n.restAdvantage, m.weights.restAdvantage)),
        JMul(n.streakAdvantage, m.weights.streakAdvantage))

\* What predict returns.
mlPrediction(m, features) ==
    LET homeWinProb == sigmoid(scoreOf(m, normalizeFeatures(features)))
        awayWinProb == IF homeWinProb = NaN THEN NaN ELSE RSub(One, homeWinProb)
        confidence == IF homeWinProb = NaN THEN NaN ELSE RMax(homeWinProb, awayWinProb)
    IN  IF ~m.isTrained
        THEN [op |-> "predict", homeWinProb |-> Half, confidence |-> Half,
              isTrained |-> FALSE]
        ELSE [op |-> "predict", homeWinProb |-> toFixed3J(homeWinProb),
              awayWinProb |-> toFixed3J(awayWinProb),
              confidence |-> toFixed3J(confidence), isTrained |-> TRUE]

\* MLModel.predict(features)
MlPredict(features) ==
    /\ ml' = [ml EXCEPT !.ret = mlPrediction(ml, features)]
    /\ UNCHANGED <<procs, cycle, modelVars, ledgerVars, storeVars, bt>>

\* JSON.stringify writes NaN as null.
jsonNumber(x) == IF x = NaN THEN JsNull ELSE x

\* MLModel.save(filepath)
MlSave ==
    /\ ml' = [ml EXCEPT
                !.file = [exists |-> TRUE, isTrained |-> ml.isTrained,
                          weights |-> [f \in DOMAIN ml.weights |->
                                          jsonNumber(ml.weights[f])],
                          bias |-> jsonNumber(ml.bias)],
                !.ret = [op |-> "save"]]
    /\ UNCHANGED <<procs, cycle, modelVars, ledgerVars, storeVars, bt>>

\* MLModel.load(filepath), the file holding modelData.
MlLoad(modelData) ==
    /\ ml' = IF ~modelData.exists THEN [ml EXCEPT !.ret = [op |-> "load", ok |-> FALSE]]
             ELSE [ml EXCEPT !.isTrained = modelData.isTrained,
                             !.weights = modelData.weights,
                             !.bias = modelData.bias,
                             !.ret = [op |-> "load", ok |-> TRUE]]
    /\ UNCHANGED <<procs, cycle, modelVars, ledgerVars, storeVars, bt>>

-----------------------------------------------------------------------------
(* Initial values of the parts a specification leaves alone.               *)

BtIdle == [pc |-> "idle"]

ModelInit == weights = NoWeights /\ isTrained = FALSE /\ pred = NoPred

\* No settlement pass under way in either process; MLModel as constructed;
\* no betting cycle under way in the server.
ExtInit == procs = ProcsIdle /\ ml = MlInit /\ cycle = CycleIdle

LedgerInit ==
    mem = InitialState /\ db = NoRow /\ bets = <<>> /\ games = <<>> /\ ret = NoRet

-----------------------------------------------------------------------------
(* Spec: betting cycles and settlement passes, one at a time, every         *)
(* statement succeeding.  SpecFail: the same, and an UPDATE of a settlement *)
(* pass may throw.                                                          *)

Quote(home, away) == <<[home |-> home, away |-> away]>>

\* A game whose favourite is priced at 1.0 while the other side's price
\* carries the expected value, and one whose Kelly stake is below 1.
DegenerateOffer == <<Upcoming(1, "E", "F", Quote(One, I(10)))>>
SmallStakeOffer == <<Upcoming(1, "E", "F", Quote(R(1177, 1000), R(19, 10)))>>

\* What getGamesWithOdds may return in a cycle.
Offers ==
    { DegenerateOffer, SmallStakeOffer,
      <<Upcoming(1, "E", "F", Quote(R(19, 10), R(19, 10)))>>,
      <<Upcoming(1, "E", "F", Quote(R(12, 10), R(19, 10))), Upcoming(2, "F", "E", <<>>)>>,
      <<Upcoming(3, "X", "Y", <<>>),
        Upcoming(1, "E", "F", Quote(R(1177, 1000), R(19, 10))),
        Upcoming(1, "E", "F", Quote(R(1, 10), R(1, 10)))>> }

Scheduled(home, away) ==
    [home_team |-> home, away_team |-> away, status |-> "scheduled",
     home_score |-> NULL, away_score |-> NULL]

FinalScores == { <<1, 0>>, <<0, 1>>, <<1, 1>>, <<NULL, NULL>> }

Probabilities == { Zero, R(1, 4), R(55, 100), R(6, 10), R(85, 100), One }
OddsValues == { R(-1, 1), Zero, One, R(101, 100), R(12, 10), R(19, 10), I(10) }
Bankrolls == { Zero, R(1, 3), I(StartingBankroll) }

Init ==
    /\ ModelInit
    /\ mem = InitialState /\ db = NoRow /\ bets = <<>> /\ ret = NoRet
    /\ games = <<Scheduled("E", "F"), Scheduled("F", "E")>>
    /\ hist = Dominant(DominantGames)
    /\ now = NowAfter(hist)
    /\ cache = <<>>
    /\ bt = BtIdle
    /\ ExtInit

Next ==
    \/ \E offered \in Offers : PlaceBets(offered, Epl)
    \/ SettleBets(0)
    \/ \E id \in DOMAIN games, score \in FinalScores : CompleteGame(id, score[1], score[2])
    \/ \E p \in Probabilities, o \in OddsValues, b \in Bankrolls :
          CalculateKellyStake(p, o, b)
    \/ GetStats

Spec == Init /\ [][Next]_vars

RECURSIVE stakesFrom(_, _)
stakesFrom(b, k) ==
    IF k > Len(b) THEN Zero
    ELSE RAdd(IF b[k].result = "pending" THEN b[k].stake ELSE Zero, stakesFrom(b, k + 1))

\* The stakes of the wagers still pending.
OutstandingStakes == stakesFrom(bets, 1)

SettledWagers == {k \in DOMAIN bets : bets[k].result # "pending"}

\* C1: ledger conservation.  After any sequence of betting cycles and
\* settlement passes from a bankroll of 1000 and zero counters, the bankroll
\* plus the stakes of the pending wagers equals 1000 plus totalProfit, in
\* memory and in the saved state.
LedgerConservation ==
    /\ RAdd(mem.bankroll, OutstandingStakes)
         = RAdd(I(StartingBankroll), mem.totalProfit)
    /\ db.saved => RAdd(db.bankroll, OutstandingStakes)
                      = RAdd(I(StartingBankroll), db.totalProfit)

\* A pass has settled a wager at a profit or loss while another is pending.
ConservationWitness ==
    /\ ret.op = "settleBets"
    /\ mem.totalProfit # Zero
    /\ SettledWagers # {}
    /\ OutstandingStakes # Zero

\* No pending wager has a completed game.
NothingDue ==
    \A k \in DOMAIN bets :
        bets[k].result = "pending" => games[bets[k].game_id].status # "completed"

\* C2: settlement is idempotent.  A settlement pass leaves every wager
\* settled before it as it was and leaves nothing due behind; a pass that
\* finds nothing due changes no wager, no bankroll and no counter, and
\* raises no error.
SettlementIdempotent ==
    [][SettleBets(0) =>
          /\ \A k \in SettledWagers : bets'[k] = bets[k]
          /\ NothingDue'
          /\ ~ret'.threw
          /\ NothingDue => mem' = mem /\ bets' = bets /\ ret'.settled = 0]_vars

\* A pass ran over a ledger that holds a settled wager and settled nothing.
SecondPassWitness ==
    /\ ret.op = "settleBets"
    /\ ret.settled = 0
    /\ SettledWagers # {}

\* C3 as stated, its part on the saved state: after a pass in which an
\* UPDATE failed, the saved bankroll state is consistent with the saved
\* wagers (the wagers settled before the failure have their effect in it).
PersistedLedgerConsistent ==
    db.saved =>
        /\ RAdd(db.bankroll, OutstandingStakes)
             = RAdd(I(StartingBankroll), db.totalProfit)
        /\ db.wins + db.losses + db.pushes = Cardinality(SettledWagers)

\* The wagers a settlement pass is due to settle.
DueWagers ==
    {k \in DOMAIN bets : /\ bets[k].result = "pending"
                         /\ games[bets[k].game_id].status = "completed"}

\* The side that won the game of wager k: "home", "away", or "push" when
\* the scores are equal or none was recorded.
OutcomeOf(k) ==
    LET g == games[bets[k].game_id]
    IN  IF g.home_score = NULL \/ g.away_score = NULL THEN "push"
        ELSE IF g.home_score > g.away_score THEN "home"
        ELSE IF g.away_score > g.home_score THEN "away"
        ELSE "push"

\* The side wager k is on.
SideOf(k) ==
    IF bets[k].selection = games[bets[k].game_id].home_team THEN "home" ELSE "away"

\* The profit the contract gives wager k.
ProfitOf(k) ==
    IF OutcomeOf(k) = "push" THEN Zero
    ELSE IF OutcomeOf(k) = SideOf(k)
         THEN RMul(bets[k].stake, RSub(bets[k].odds, One))
         ELSE RNeg(bets[k].stake)

RECURSIVE payoutFrom(_)
payoutFrom(ks) ==
    IF ks = {} THEN Zero
    ELSE LET k == CHOOSE j \in ks : TRUE
         IN  RAdd(RAdd(bets[k].stake, ProfitOf(k)), payoutFrom(ks \ {k}))

\* C14: settlement outcome and payout.  A settlement pass gives every
\* pending wager of a completed game the outcome of the scores (the home
\* team, the away team, or push when they are equal or missing) and the
\* profit stake * (odds - 1) on a win, -stake on a loss, 0 on a push; the
\* bankroll grows by stake + profit of each, and each adds one to exactly
\* one of wins, losses, pushes.
SettlementPayout ==
    [][SettleBets(0) =>
          /\ \A k \in DueWagers :
                /\ bets'[k].result =
                      IF OutcomeOf(k) = "home" THEN games[bets[k].game_id].home_team
                      ELSE IF OutcomeOf(k) = "away" THEN games[bets[k].game_id].away_team
                      ELSE "push"
                /\ bets'[k].profit = ProfitOf(k)
          /\ mem'.bankroll = RAdd(mem.bankroll, payoutFrom(DueWagers))
          /\ mem'.wins = mem.wins
                + Cardinality({k \in DueWagers : OutcomeOf(k) = SideOf(k)})
          /\ mem'.losses = mem.losses
                + Cardinality({k \in DueWagers : OutcomeOf(k) \notin {"push", SideOf(k)}})
          /\ mem'.pushes = mem.pushes
                + Cardinality({k \in DueWagers : OutcomeOf(k) = "push"})
          /\ db' = saveState(mem')]_vars

\* A pass has settled wagers, and the ledger holds a won and a lost one.
WonAndLostSettled ==
    /\ ret.op = "settleBets" /\ ret.settled >= 1
    /\ mem.wins >= 1 /\ mem.losses >= 1
    /\ \E k \in DOMAIN bets : bets[k].profit # Zero /\ RLt(Zero, bets[k].profit)

\* C15: the fractional Kelly value.  For odds above 1 calculateKellyStake
\* returns min(bankroll * max(0, kellyFraction * ((odds - 1) * p - (1 - p))
\* / (odds - 1)), bankroll * maxStakePct); for p = 0.6, odds = 1.90 and a
\* bankroll of 1000 that is 38.89 to the cent, below the cap of 50.
FractionalKellyValue ==
    ret.op = "calculateKellyStake" =>
        LET p == ret.probability
            edge == RSub(RMul(RSub(ret.odds, One), p), RSub(One, p))
        IN  /\ RLt(One, ret.odds) =>
                  ret.stake =
                      RMin(RMul(ret.bankroll,
                                RMax(Zero, RDiv(RMul(kellyFraction, edge),
                                                RSub(ret.odds, One)))),
                           RMul(ret.bankroll, maxStakePct))
            /\ (p = R(6, 10) /\ ret.odds = R(19, 10) /\ ret.bankroll = I(1000)) =>
                  /\ toFixed2(ret.stake) = R(3889, 100)
                  /\ RLt(ret.stake, I(50))

\* The stake of the example has been computed.
KellyExample ==
    /\ ret.op = "calculateKellyStake"
    /\ ret.probability = R(6, 10) /\ ret.odds = R(19, 10) /\ ret.bankroll = I(1000)
    /\ ret.stake = R(350, 9)

\* The prediction placeBets gets for a game, the price of the side it
\* selects and the stake it computes for it.
PredictionFor(game) ==
    predictFrom(game, extractFeatures(hist, cache, game, Epl, now, NoFault),
                weights, isTrained)

SelectedOdds(game) ==
    IF PredictionFor(game).predictedWinner = game.home_team
    THEN getBestOdds(game).home ELSE getBestOdds(game).away

StakeFor(game) ==
    calculateKellyStake(IF PredictionFor(game).predictedWinner = game.home_team
                        THEN PredictionFor(game).homeWinProb
                        ELSE PredictionFor(game).awayWinProb,
                        SelectedOdds(game), loadState(mem, db).bankroll)

\* C16: skip without effect.  A betting cycle over one game whose selected
\* odds are at most 1, or whose stake comes out below the minimum of 1,
\* records no wager, leaves bankroll, totalBets and totalStaked as they
\* were, counts the game as skipped and returns normally.
SkipWithoutEffect ==
    [][\A offered \in Offers :
          (/\ Len(offered) = 1
           /\ ret'.op = "placeBets" /\ ret'.offered = offered
           /\ PlaceBets(offered, Epl)
           /\ \/ RLe(SelectedOdds(offered[1]), One)
              \/ RLt(StakeFor(offered[1]), I(MinStake)))
          => /\ bets' = bets
             /\ mem'.bankroll = loadState(mem, db).bankroll
             /\ mem'.totalBets = loadState(mem, db).totalBets
             /\ mem'.totalStaked = loadState(mem, db).totalStaked
             /\ db' = saveState(mem')
             /\ ret'.skipped = 1 /\ ret'.placed = 0]_vars

\* A cycle has skipped the game whose selected side is priced at 1.0, the
\* expected value having passed the threshold and the stake being zero.
SkippedDegenerateOdds ==
    /\ ret.op = "placeBets" /\ ret.offered = DegenerateOffer /\ ret.skipped = 1
    /\ SelectedOdds(DegenerateOffer[1]) = One
    /\ ~RLt(PredictionFor(DegenerateOffer[1]).expectedValue, minExpectedValue)
    /\ StakeFor(DegenerateOffer[1]) = Zero

\* C18 as stated: getStats reports as totalBets the number of wagers placed
\* so far, the pending ones included, with the bankroll reduced by their
\* stakes.
StatsCountPlacedWagers ==
    ret.op = "getStats" =>
        /\ ret.totalBets = Len(bets)
        /\ ret.bankroll = RSub(RAdd(I(StartingBankroll), ret.totalProfit),
                               OutstandingStakes)

\* C25 as stated: no game has two pending wagers, whatever the sequence of
\* betting cycles.
NoDuplicatePendingWagers ==
    \A j, k \in DOMAIN bets :
        (j # k /\ bets[j].result = "pending" /\ bets[k].result = "pending")
            => bets[j].game_id # bets[k].game_id

\* C29 as stated: a wager has a terminal result only when its contest has a
\* recorded home and away score; the wager on a contest completed without
\* scores stays pending.
SettledOnlyWithScores ==
    \A k \in DOMAIN bets :
        bets[k].result # "pending" =>
            /\ games[bets[k].game_id].home_score # NULL
            /\ games[bets[k].game_id].away_score # NULL

\* C4: the stake bound.  calculateKellyStake returns a stake between 0 and
\* bankroll * maxStakePct, and every wager placed has a stake between 0 and
\* maxStakePct of the bankroll just before its placement.
StakeWithinBound ==
    /\ ret.op = "calculateKellyStake" =>
           /\ RLe(Zero, ret.stake)
           /\ RLe(ret.stake, RMul(ret.bankroll, maxStakePct))
    /\ \A k \in DOMAIN bets :
           /\ RLe(Zero, bets[k].stake)
           /\ RLe(bets[k].stake, RMul(bets[k].bankrollAt, maxStakePct))

\* One cycle placed two wagers, the second at the cap of the bankroll the
\* first had already reduced.
CappedSecondWager ==
    /\ ret.op = "placeBets"
    /\ ret.placed = 2
    /\ \E k \in DOMAIN bets :
           /\ k > 1
           /\ bets[k].bankrollAt = RSub(bets[k - 1].bankrollAt, bets[k - 1].stake)
           /\ bets[k].stake = RMul(bets[k].bankrollAt, maxStakePct)

NextFail ==
    \/ Next
    \/ \E failAt \in 1..MaxBets : SettleBets(failAt)

SpecFail == Init /\ [][NextFail]_vars

-----------------------------------------------------------------------------
(* SpecBacktest: one run of runBacktest over a fixed history.              *)

BacktestHistories ==
    { DrawHeavy(MinBacktestGames - 1), DrawHeavy(MinBacktestGames + ExtraGames),
      Mixed(MinBacktestGames + ExtraGames), TwoTier(MinBacktestGames + ExtraGames) }

Day(d) == d * MinutesPerDay

BacktestOptions ==
    [minConfidence : {R(55, 100), R(58, 100)}, minExpectedValue : {R(2, 100)},
     kellyFraction : {R(25, 100)}, startDate : {NULL, Day(4)}, endDate : {NULL},
     sampleSize : {MinBacktestGames - 10, MinBacktestGames, TrainingLimit}]

InitBacktest ==
    /\ ModelInit
    /\ LedgerInit
    /\ hist \in BacktestHistories
    /\ now = NowAfter(hist)
    /\ cache = <<>>
    /\ bt = BtIdle
    /\ ExtInit

NextBacktest ==
    \/ \E options \in BacktestOptions : StartBacktest(Epl, options)
    \/ BacktestGame
    \/ FinishBacktest

SpecBacktest == InitBacktest /\ [][NextBacktest]_vars

\* The row the loop evaluated last.
LastEvaluated == bt.games[bt.i - 1]

\* C5 as stated: the features of a contest evaluated in a backtest are the
\* aggregates over the contests that started strictly before it, as of its
\* start; its own result and later results have no part in them.
NoLookahead ==
    (bt.pc = "running" /\ bt.i > 1) =>
        LET earlier(r) == r.start_time < LastEvaluated.start_time
        IN  bt.features = extractFeaturesUnsafe(SelectSeq(hist, earlier), LastEvaluated,
                                                bt.sportKey, LastEvaluated.start_time,
                                                NoFault)

\* C6 as stated: runBacktest evaluates the contests it selected in ascending
\* order of start_time, oldest first.
ChronologicalReplay ==
    bt.pc # "idle" =>
        \A j, k \in 1..Len(bt.games) :
            (j < k /\ k < bt.i) => bt.games[j].start_time <= bt.games[k].start_time

\* The completed contests of the sport within the date filters of the run.
MatchingGames ==
    Cardinality({k \in DOMAIN hist :
        /\ hist[k].sport = bt.sportKey
        /\ hist[k].home_score # NULL
        /\ (bt.options.startDate # NULL => hist[k].start_time >= bt.options.startDate)
        /\ (bt.options.endDate # NULL => hist[k].start_time <= bt.options.endDate)})

\* The contests the run loads: the matching ones, at most sampleSize.
LoadedGames ==
    IF MatchingGames < bt.options.sampleSize THEN MatchingGames
    ELSE bt.options.sampleSize

\* C7 as stated: the run fails when fewer than 50 contests match and returns
\* a report when 50 or more match.
FailsIffFewMatch ==
    bt.pc # "idle" =>
        /\ MatchingGames < MinBacktestGames => bt.report.returned = "null"
        /\ MatchingGames >= MinBacktestGames =>
               /\ bt.report.returned # "null"
               /\ bt.pc = "done" => bt.report.returned = "report"

\* C7, amended: the run fails (returns null, no report) when the sample it
\* loads - the matching contests, at most sampleSize of them - has fewer
\* than 50 contests, and returns a report when the sample has 50 or more.
FailsIffSmallSample ==
    bt.pc # "idle" =>
        /\ LoadedGames < MinBacktestGames => bt.pc = "done" /\ bt.report.returned = "null"
        /\ LoadedGames >= MinBacktestGames =>
               /\ bt.report.returned # "null"
               /\ bt.pc = "done" => bt.report.returned = "report"

\* A run failed although 50 or more contests match its filters.
SmallSampleFailure ==
    /\ bt.pc = "done"
    /\ bt.report.returned = "null"
    /\ MatchingGames >= MinBacktestGames

RECURSIVE profitsFrom(_, _)
profitsFrom(b, k) ==
    IF k > Len(b) THEN Zero ELSE RAdd(b[k].profit, profitsFrom(b, k + 1))

\* The sum of the profits of the bets b; the zero profits (the pushes) add
\* nothing and are left out of the summation.
SumOfProfits(b) ==
    LET decided(bet) == bet.profit # Zero
    IN  profitsFrom(SelectSeq(b, decided), 1)

\* C8: the backtest round trip.  At the end of a full run the profits of all
\* the bets simulated, and the totalProfit of the report, equal the final
\* bankroll minus the starting bankroll.
BacktestRoundTrip ==
    (bt.pc = "done" /\ bt.report.returned = "report") =>
        /\ SumOfProfits(bt.bets) = RSub(bt.bankroll, I(StartingBankroll))
        /\ bt.report.results.totalProfit = RSub(bt.bankroll, I(StartingBankroll))

\* A run has ended with more bets than the report keeps, won and lost ones
\* among them.
LongRunReported ==
    /\ bt.pc = "done"
    /\ bt.report.returned = "report"
    /\ Len(bt.bets) > ReportedBets
    /\ Len(bt.report.bets) = ReportedBets
    /\ bt.report.results.wins > 0
    /\ bt.report.results.losses > 0
    /\ bt.bankroll # I(StartingBankroll)

\* C21 as stated: the stake of every simulated bet is the stake that
\* calculateKellyStake gives for the selection's probability, its odds and
\* the simulated bankroll before the bet, and no bet is staked below the
\* minimum.
BacktestStakeFollowsSizer ==
    bt.pc # "idle" =>
        \A k \in 1..Len(bt.bets) :
            /\ bt.bets[k].stake =
                  calculateKellyStake(bt.bets[k].confidence, bt.bets[k].odds,
                                      RSub(bt.bets[k].bankroll, bt.bets[k].profit))
            /\ ~belowMinimum(bt.bets[k].stake)

\* The contest the loop is about to evaluate is one it skips, given the
\* features extracted for it: its confidence or its expected value is below
\* the threshold of the run.
BelowThresholds(features) ==
    LET game == bt.games[bt.i]
        homeProb == calculateHomeWinProbability(features, weights)
        awayProb == RSub(One, homeProb)
        confidence == RMax(homeProb, awayProb)
        odds == estimateOdds(homeProb, awayProb, game.home_odds, game.away_odds)
    IN  \/ RLt(confidence, bt.options.minConfidence)
        \/ RLt(calculateEV(homeProb, awayProb, odds), bt.options.minExpectedValue)

\* C22: a contest skipped for its confidence or its expected value leaves
\* the running bankroll, every counter and total of the results, every
\* confidence band and the list of bets as they were.
SkippedContestNoEffect ==
    [][(BacktestGame /\ BelowThresholds(bt'.features)) =>
          /\ bt'.bankroll = bt.bankroll
          /\ bt'.results = bt.results
          /\ bt'.bets = bt.bets
          /\ bt'.i = bt.i + 1]_vars

\* The contest evaluated last was skipped for its confidence, after bets on
\* earlier ones.
SkippedAfterBets ==
    /\ bt.pc = "running" /\ bt.i > 1
    /\ Len(bt.bets) > 0
    /\ RLt(RMax(calculateHomeWinProbability(bt.features, weights),
                RSub(One, calculateHomeWinProbability(bt.features, weights))),
           bt.options.minConfidence)
    /\ bt.results.totalBets = Len(bt.bets)

\* C23 as stated: with both streaks in [-10, 10], the home and the away
\* streak term of the heuristic probability each lie in [-0.03, 0.03], and
\* together they shift the probability by at most 0.06.
StreakTermsClamped ==
    (/\ bt.pc = "running" /\ bt.i > 1
     /\ bt.features.homeStreak \in -RecentWindow..RecentWindow
     /\ bt.features.awayStreak \in -RecentWindow..RecentWindow) =>
        LET home == homeStreakBonus(bt.features.homeStreak)
            away == awayStreakBonus(bt.features.awayStreak)
            most == R(MaxStreak, 100)
        IN  /\ RLe(RNeg(most), home) /\ RLe(home, most)
            /\ RLe(RNeg(most), away) /\ RLe(away, most)
            /\ RLe(RNeg(RAdd(most, most)), RAdd(home, away))
            /\ RLe(RAdd(home, away), RAdd(most, most))

RECURSIVE bandTotals(_, _)
bandTotals(byConfidence, bands) ==
    IF bands = {} THEN [bets |-> 0, wins |-> 0, profit |-> Zero]
    ELSE LET b == CHOOSE x \in bands : TRUE
             rest == bandTotals(byConfidence, bands \ {b})
         IN  [bets |-> rest.bets + byConfidence[b].bets,
              wins |-> rest.wins + byConfidence[b].wins,
              profit |-> RAdd(rest.profit, byConfidence[b].profit)]

\* The bets whose confidence lies in the tenth that starts at band.
BetsInBand(band) ==
    {k \in 1..Len(bt.bets) :
        /\ RLe(band, bt.bets[k].confidence)
        /\ RLt(bt.bets[k].confidence, RAdd(band, R(1, 10)))}

\* C30: the counters of a backtest.  After every simulated bet and in the
\* report, totalBets = wins + losses + pushes; the bets, the wins and the
\* profits of the confidence bands add up to totalBets, wins and
\* totalProfit; the bands start at whole tenths, and each holds the bets
\* whose confidence lies in its tenth.
BacktestCountersConsistent ==
    bt.pc # "idle" =>
        LET r == bt.results
            sums == bandTotals(r.byConfidence, DOMAIN r.byConfidence)
        IN  /\ r.totalBets = r.wins + r.losses + r.pushes
            /\ r.totalBets = Len(bt.bets)
            /\ sums.bets = r.totalBets
            /\ sums.wins = r.wins
            /\ sums.profit = r.totalProfit
            /\ \A band \in DOMAIN r.byConfidence :
                  /\ RMul(band, I(10))[2] = 1
                  /\ r.byConfidence[band].bets = Cardinality(BetsInBand(band))
            /\ \A k \in 1..Len(bt.bets) :
                  \E band \in DOMAIN r.byConfidence : k \in BetsInBand(band)
            /\ bt.report.returned = "report" =>
                  /\ bt.report.results.totalBets
                       = bt.report.results.wins + bt.report.results.losses
                         + bt.report.results.pushes
                  /\ bt.report.results.byConfidence = r.byConfidence
                  /\ bt.report.results.totalBets = r.totalBets
                  /\ bt.report.results.totalProfit = r.totalProfit

\* A report of a run with bets in two confidence bands, wins, losses and
\* pushes among them.
TwoBandsReported ==
    /\ bt.pc = "done" /\ bt.report.returned = "report"
    /\ Cardinality(DOMAIN bt.results.byConfidence) >= 2
    /\ bt.results.wins > 0 /\ bt.results.losses > 0 /\ bt.results.pushes > 0

-----------------------------------------------------------------------------
(* SpecPredict: train and predict over a fixed history.                    *)

PredictHistories ==
    { <<>>, Dominant(DominantGames), Mixed(MinTrainingGames + ExtraGames) }
    \cup { HomeEdge(n) : n \in {MinTrainingGames + 14, MinTrainingGames + ExtraGames} }

InitPredict ==
    /\ ModelInit
    /\ LedgerInit
    /\ hist \in PredictHistories
    /\ now = NowAfter(hist)
    /\ cache = <<>>
    /\ bt = BtIdle
    /\ ExtInit

NextPredict ==
    \/ \E sportKey \in {Epl} : Train(sportKey)
    \/ \E game \in UpcomingGames : Predict(game, Epl)

SpecPredict == InitPredict /\ [][NextPredict]_vars

\* C9: the confidence predict reports lies within the clamp bounds
\* [0.25, 0.85], whatever features the history gives.
ConfidenceWithinClamp ==
    pred.op = "predict" =>
        RLe(ClampLow, pred.confidence) /\ RLe(pred.confidence, ClampHigh)

\* A prediction whose raw probability the clamp cut down to its upper bound,
\* and one cut up to its lower bound (the away side then has the confidence).
ConfidenceAtClamp ==
    /\ pred.op = "predict"
    /\ pred.homeWinProb = ClampHigh
    /\ pred.confidence = ClampHigh

\* C10 as stated: the reported home and away probabilities sum to exactly 1.
ReportedProbabilitiesSumToOne ==
    pred.op = "predict" => RAdd(pred.homeWinProb, pred.awayWinProb) = One

-----------------------------------------------------------------------------
(* SpecFeatures: the feature engine called directly, with data accesses     *)
(* that may throw, results arriving in historical_games, the clock          *)
(* advancing and the cache being cleared.                                   *)

\* The combinations of failing accesses tried.
Faults ==
    { NoFault, DbFault, QueryFault, [NoFault EXCEPT !.stats = TRUE] }

\* The contests asked about: E v F twice under different ids, and a contest
\* of a team without history.
FeatureGames ==
    { Upcoming(1, "E", "F", <<>>), Upcoming(7, "E", "F", <<>>),
      Upcoming(8, "E", "X", <<>>) }

\* The finished games the API may report, the second one a goalless side's.
ArrivingResults ==
    { [id |-> 100, home_team |-> "F", away_team |-> "E",
       commence_time |-> NowAfter(Dominant(DominantGames)) - 60,
       home_score |-> 2, away_score |-> 1],
      [id |-> 101, home_team |-> "E", away_team |-> "F",
       commence_time |-> NowAfter(Dominant(DominantGames)) - 30,
       home_score |-> 0, away_score |-> 1] }

MaxClock == 6

\* FeatureEngine.extractFeatures(game, sport), its accesses failing as in
\* faults.  computed tells whether getCached ran the fetch function.
ExtractFeatures(game, sport, faults) ==
    \E features \in {extractFeatures(hist, cache, game, sport, now, faults)} :
        /\ pred' = [op |-> "extractFeatures", game |-> game, sport |-> sport,
                    computed |-> ~cacheHit(cache, cacheKey(game, sport), now),
                    faults |-> IF cacheHit(cache, cacheKey(game, sport), now)
                               THEN NoFault ELSE faults,
                    features |-> features]
        /\ cache' = cacheAfter(cache, game, sport, now, features)
        /\ UNCHANGED <<extVars, weights, isTrained, ledgerVars, hist, now, bt>>

\* FeatureEngine.clearCache()
ClearCache ==
    /\ cache' = <<>>
    /\ pred' = [op |-> "clearCache"]
    /\ UNCHANGED <<extVars, weights, isTrained, ledgerVars, hist, now, bt>>

\* storeHistoricalGames for one finished game (INSERT OR IGNORE: a game
\* already stored is left alone); a score of 0 is stored as NULL, and no
\* odds are recorded.
StoreHistoricalGame(game) ==
    /\ \A k \in DOMAIN hist : hist[k].id # game.id
    /\ hist' = Append(hist,
                      [id |-> game.id, sport |-> Epl,
                       home_team |-> game.home_team, away_team |-> game.away_team,
                       start_time |-> game.commence_time,
                       home_score |-> IF game.home_score = 0 THEN NULL
                                      ELSE game.home_score,
                       away_score |-> IF game.away_score = 0 THEN NULL
                                      ELSE game.away_score,
                       home_odds |-> Zero, away_odds |-> Zero])
    /\ UNCHANGED <<extVars, modelVars, ledgerVars, now, cache, bt>>

\* Time passes on the clock Date.now() reads.
Tick(minutes) ==
    /\ now + minutes <= NowAfter(Dominant(DominantGames)) + MaxClock
    /\ now' = now + minutes
    /\ UNCHANGED <<extVars, modelVars, ledgerVars, hist, cache, bt>>

InitFeatures ==
    /\ ModelInit
    /\ LedgerInit
    /\ hist = Dominant(DominantGames)
    /\ now = NowAfter(hist)
    /\ cache = <<>>
    /\ bt = BtIdle
    /\ ExtInit

NextFeatures ==
    \/ \E game \in FeatureGames, faults \in Faults : ExtractFeatures(game, Epl, faults)
    \/ ClearCache
    \/ \E game \in ArrivingResults : StoreHistoricalGame(game)
    \/ \E minutes \in {3} : Tick(minutes)

SpecFeatures == InitFeatures /\ [][NextFeatures]_vars

\* C11 as stated: a feature extraction of which a data access failed
\* returns the vector of neutral defaults, marked valid = false.
FaultGivesInvalidDefaults ==
    (pred.op = "extractFeatures" /\ pred.computed /\ pred.faults # NoFault) =>
        /\ ~pred.features.valid
        /\ pred.features.homeWinPct = Half /\ pred.features.awayWinPct = Half
        /\ pred.features.homeRecentWinPct = Half /\ pred.features.awayRecentWinPct = Half
        /\ pred.features.h2hHomeWins = 0 /\ pred.features.h2hAwayWins = 0
        /\ pred.features.homeRestDays = I(DefaultRestDays)
        /\ pred.features.awayRestDays = I(DefaultRestDays)
        /\ pred.features.homeStreak = 0 /\ pred.features.awayStreak = 0

\* The completed games of a team in historical_games.
GamesOf(team) ==
    {k \in DOMAIN hist : /\ hist[k].sport = Epl /\ hist[k].home_score # NULL
                         /\ team \in {hist[k].home_team, hist[k].away_team}}

\* C12 as stated: the features computed for a contest of a team without
\* historical games are marked valid = false and hold the defaults (0.5 win
\* percentages, 2 days rest, no head-to-head, no streak).
NoHistoryGivesInvalidDefaults ==
    [][\A game \in FeatureGames :
             (/\ ExtractFeatures(game, Epl, NoFault)
              /\ pred'.computed
              /\ (GamesOf(game.home_team) = {} \/ GamesOf(game.away_team) = {}))
             => /\ ~pred'.features.valid
                /\ pred'.features.h2hHomeWins = 0 /\ pred'.features.h2hAwayWins = 0
                /\ pred'.features.h2hTotal = 0
                /\ GamesOf(game.home_team) = {} =>
                      /\ pred'.features.homeWinPct = Half
                      /\ pred'.features.homeRecentWinPct = Half
                      /\ pred'.features.homeRestDays = I(DefaultRestDays)
                      /\ pred'.features.homeStreak = 0
                /\ GamesOf(game.away_team) = {} =>
                      /\ pred'.features.awayWinPct = Half
                      /\ pred'.features.awayRecentWinPct = Half
                      /\ pred'.features.awayRestDays = I(DefaultRestDays)
                      /\ pred'.features.awayStreak = 0
         ]_vars

\* C19: the feature cache.  A call for a key whose entry is younger than
\* cacheTimeout returns the entry's vector and leaves the cache as it is,
\* whatever results arrived since and whichever contest of the two teams is
\* asked about; an entry changes only once it is cacheTimeout old, and
\* leaves the cache only by clearCache.
CacheExpiryOnly ==
    [][/\ \A game \in FeatureGames, faults \in Faults :
            (/\ ExtractFeatures(game, Epl, faults)
             /\ cacheKey(game, Epl) \in DOMAIN cache
             /\ now - cache[cacheKey(game, Epl)].timestamp < cacheTimeout)
            => /\ pred'.features = cache[cacheKey(game, Epl)].data
               /\ ~pred'.computed
               /\ cache' = cache
       /\ \A key \in DOMAIN cache :
            \/ key \in DOMAIN cache' /\ cache'[key] = cache[key]
            \/ key \in DOMAIN cache' /\ now - cache[key].timestamp >= cacheTimeout
            \/ ClearCache]_vars

\* A call answered from the cache, later than the entry was made, with a
\* vector that the results arrived since have made stale.
StaleHit ==
    /\ pred.op = "extractFeatures" /\ ~pred.computed
    /\ pred.game.id = 7
    /\ now > cache[cacheKey(pred.game, Epl)].timestamp
    /\ pred.features # extractFeaturesUnsafe(hist, pred.game, Epl, now, NoFault)
    /\ Len(hist) > DominantGames

\* The completed meetings of the two sides of game in historical_games.
Meetings(game) ==
    {k \in DOMAIN hist :
        /\ hist[k].sport = Epl /\ hist[k].home_score # NULL
        /\ {hist[k].home_team, hist[k].away_team} = {game.home_team, game.away_team}}

\* Those of them that team won, at home or away.
WonBy(game, team) ==
    {k \in Meetings(game) :
        \/ hist[k].home_team = team /\ hist[k].home_score > hist[k].away_score
        \/ hist[k].away_team = team /\ hist[k].away_score > hist[k].home_score}

\* C24 as stated: the head-to-head counts computed for a contest are the
\* meetings won by its home side and those won by its away side, whichever
\* side hosted them, out of the total of the meetings.
HeadToHeadCounts ==
    [][\A game \in FeatureGames :
          (/\ pred'.op = "extractFeatures" /\ pred'.computed
           /\ ExtractFeatures(game, Epl, NoFault)) =>
             /\ pred'.features.h2hTotal = Cardinality(Meetings(game))
             /\ pred'.features.h2hHomeWins = Cardinality(WonBy(game, game.home_team))
             /\ pred'.features.h2hAwayWins = Cardinality(WonBy(game, game.away_team))
             /\ pred'.features.h2hHomeWins + pred'.features.h2hAwayWins
                  <= pred'.features.h2hTotal]_vars

-----------------------------------------------------------------------------
(* SpecConcurrent: betting cycles and games completing as in Spec, and the  *)
(* settlement passes of two processes running statement by statement.  A    *)
(* betting cycle runs while no pass is under way.                           *)

ConcurrentOffers == { <<Upcoming(1, "E", "F", Quote(R(19, 10), R(19, 10)))>>,
                      <<Upcoming(2, "F", "E", <<>>)>> }

NextConcurrent ==
    \/ /\ \A p \in Procs : procs[p].pc = "idle"
       /\ \E offered \in ConcurrentOffers : PlaceBets(offered, Epl)
    \/ \E id \in DOMAIN games, score \in {<<1, 0>>, <<0, 1>>} :
          CompleteGame(id, score[1], score[2])
    \/ \E p \in Procs : SettleLoad(p)
    \/ \E p \in Procs : SettleQuery(p)
    \/ \E p \in Procs : SettleNext(p)
    \/ \E p \in Procs : SettleSave(p)

SpecConcurrent == Init /\ [][NextConcurrent]_vars

\* C13 as stated: whatever the interleaving of two settlement passes, once
\* both have finished the saved state is the one a serial execution leaves:
\* every settled wager credited and counted exactly once, no credit lost.
ConcurrentLedgerConsistent ==
    (db.saved /\ \A p \in Procs : procs[p].pc = "idle") =>
        /\ RAdd(db.bankroll, OutstandingStakes)
             = RAdd(I(StartingBankroll), db.totalProfit)
        /\ db.totalProfit = SumOfProfits(bets)
        /\ db.wins + db.losses + db.pushes = Cardinality(SettledWagers)

-----------------------------------------------------------------------------
(* SpecAsync: the API server.  Betting cycles run from await to await,      *)
(* one at a time, and requests for the statistics are served at any await.  *)

AsyncOffers ==
    { <<Upcoming(1, "E", "F", Quote(R(19, 10), R(19, 10))),
        Upcoming(2, "E", "F", Quote(R(19, 10), R(19, 10)))>>,
      <<Upcoming(1, "E", "F", Quote(R(19, 10), R(19, 10)))>>,
      <<Upcoming(3, "X", "Y", <<>>)>> }

NextAsync ==
    \/ \E offered \in AsyncOffers : PlaceStart(offered)
    \/ PlaceTurn(Epl)
    \/ PlaceEnd
    \/ GetStats

SpecAsync == Init /\ [][NextAsync]_vars

\* The stakes of the wagers placed since the cycle under way began.
RECURSIVE CycleStakes(_)
CycleStakes(k) ==
    IF k > Len(bets) THEN Zero ELSE RAdd(bets[k].stake, CycleStakes(k + 1))

\* C27 as stated: whatever getStats calls ran at the awaits of a betting
\* cycle, the state the cycle saves at its end reflects every stake it
\* deducted and every wager it counted.
StatsReadOnlyDuringCycle ==
    [][PlaceEnd =>
          /\ db'.bankroll = RSub(cycle.start.bankroll, CycleStakes(cycle.before + 1))
          /\ db'.totalBets = cycle.start.totalBets + cycle.placed
          /\ db'.totalStaked = RAdd(cycle.start.totalStaked,
                                    CycleStakes(cycle.before + 1))]_vars

-----------------------------------------------------------------------------
(* SpecSession: the commands of cli.js run one after another over one       *)
(* database: betting cycles, games completing, settlement passes, and a     *)
(* backtest, which runs to its end before the next command.                 *)

SessionOffers == { <<Upcoming(1, "A", "B", Quote(I(3), I(3)))>> }

SessionOptions ==
    { o \in BacktestOptions : /\ o.minConfidence = minConfidence
                              /\ o.startDate = NULL
                              /\ o.sampleSize = TrainingLimit }

InitSession ==
    /\ ModelInit
    /\ mem = InitialState /\ db = NoRow /\ bets = <<>> /\ ret = NoRet
    /\ games = <<Scheduled("A", "B")>>
    /\ hist = DrawHeavy(MinBacktestGames + ExtraGames)
    /\ now = NowAfter(hist)
    /\ cache = <<>>
    /\ bt = BtIdle
    /\ ExtInit

NextSession ==
    \/ /\ bt.pc # "running"
       /\ \/ \E offered \in SessionOffers : PlaceBets(offered, Epl)
          \/ SettleBets(0)
          \/ \E id \in DOMAIN games, score \in {<<1, 0>>, <<0, 1>>} :
                CompleteGame(id, score[1], score[2])
          \/ \E options \in SessionOptions : StartBacktest(Epl, options)
    \/ BacktestGame
    \/ FinishBacktest

SpecSession == InitSession /\ [][NextSession]_vars

\* C28: the bankroll of the ledger, in memory and as saved, is never
\* negative, whatever was placed and settled; the simulated bankroll of a
\* backtest is positive after every simulated bet.
BankrollNeverNegative ==
    /\ RLe(Zero, mem.bankroll)
    /\ db.saved => RLe(Zero, db.bankroll)
    /\ bt.pc # "idle" =>
          /\ RLt(Zero, bt.bankroll)
          /\ \A k \in 1..Len(bt.bets) : RLt(Zero, bt.bets[k].bankroll)

\* Every wager of the ledger was lost and settled, leaving its bankroll
\* below where it started, and a backtest has lost a bet.
BothBankrollsDown ==
    /\ db.saved /\ db.losses = MaxBets /\ RLt(db.bankroll, I(StartingBankroll))
    /\ \A k \in DOMAIN bets : bets[k].result # "pending"
    /\ bt.pc = "done" /\ bt.results.losses > 0
    /\ \E k \in DOMAIN bt.bets : RLt(bt.bets[k].profit, Zero)

-----------------------------------------------------------------------------
(* SpecML: the trainable model trained on histories of several sizes,       *)
(* saved, loaded and asked for predictions.                                 *)

\* What Math.random() * 0.1 may give.
InitialWeights == { Zero, R(5, 100), R(99, 1000) }

\* The histories train() is given.
TrainingSets ==
    { HomeEdge(MinMlSamples - 1), HomeEdge(MinMlSamples),
      HomeEdge(MinTrainingGames - 1), HomeEdge(MinTrainingGames),
      Mixed(MinMlSamples + ExtraGames), Dominant(MinMlSamples + ExtraGames) }

\* The options train() is given: those of the training script, the defaults,
\* and fewer epochs than the patience.
TrainingOptions ==
    { [epochs |-> 500, earlyStop |-> 30], [epochs |-> 1000, earlyStop |-> 50],
      [epochs |-> 20, earlyStop |-> 30] }

\* A model file written by a training that converged: a bias of 2.
ConvergedModel ==
    [exists |-> TRUE, isTrained |-> TRUE, weights |-> MlWeights(R(1, 2)), bias |-> I(2)]

\* The feature vectors predict is given.
FeatureVectors ==
    { extractFeaturesUnsafe(Dominant(DominantGames), game, Epl,
                            NowAfter(Dominant(DominantGames)), faults) :
        game \in FeatureGames \cup { Upcoming(2, "F", "E", <<>>) },
        faults \in { NoFault, DbFault } }

NextML ==
    \/ \E data \in TrainingSets, w0 \in InitialWeights, options \in TrainingOptions :
          MlTrain(data, w0, options)
    \/ \E features \in FeatureVectors : MlPredict(features)
    \/ MlSave
    \/ \E modelData \in {ml.file, ConvergedModel} : MlLoad(modelData)

SpecML == InitFeatures /\ [][NextML]_vars

\* C17 as stated: training on fewer than 50 labeled samples returns the
\* not-trained result and leaves isTrained, the weights and the bias as
\* they were; a training that succeeds had 50 or more.
TrainingNeedsFiftySamples ==
    [][\A data \in TrainingSets, w0 \in InitialWeights, options \in TrainingOptions :
          MlTrain(data, w0, options) =>
             /\ Len(labeledSamples(data)) < MinTrainingGames =>
                   /\ ~ml'.ret.ok
                   /\ ml'.isTrained = ml.isTrained
                   /\ ml'.weights = ml.weights /\ ml'.bias = ml.bias
             /\ ml'.ret.ok => Len(labeledSamples(data)) >= MinTrainingGames]_vars

\* C20 as stated: the confidence a trained MLModel reports is a number
\* within [0.25, 0.85].
MlConfidenceWithinClamp ==
    (ml.ret.op = "predict" /\ ml.ret.isTrained) =>
        /\ ml.ret.confidence # NaN
        /\ RLe(ClampLow, ml.ret.confidence)
        /\ RLe(ml.ret.confidence, ClampHigh)

\* The in-sample accuracy at the end of every epoch of a training on data:
\* every sample is classified as a home loss.
EpochAccuracy(data) ==
    LET X == labeledSamples(data)
    IN  R(Cardinality({k \in DOMAIN X : X[k].home_score <= X[k].away_score}), Len(X))

\* The best accuracy seen before epoch e: 0 before the first.
BestBefore(accuracy, e) == IF e = 1 THEN Zero ELSE RMax(Zero, accuracy)

\* At the end of epoch e, `patience` consecutive epochs have ended without
\* the accuracy exceeding the best seen before them.
PatienceSpent(accuracy, e, patience) ==
    /\ e >= patience
    /\ \A k \in (e - patience + 1)..e : RLe(accuracy, BestBefore(accuracy, k))

\* C26: a training that succeeds runs at most `epochs` passes; it stops
\* before them exactly at the first epoch at which earlyStop consecutive
\* epochs have ended without improvement, and reports the best accuracy of
\* the epochs it ran.
TrainingTerminates ==
    [][\A data \in TrainingSets, w0 \in InitialWeights, options \in TrainingOptions :
          (/\ ml'.ret.op = "train" /\ ml'.ret.ok
           /\ ml'.ret.epochs = options.epochs /\ ml'.weights = MlWeights(w0)
           /\ MlTrain(data, w0, options)) =>
             \E accuracy \in {EpochAccuracy(data)} :
                /\ ml'.ret.passes <= options.epochs
                /\ ml'.ret.passes < options.epochs =>
                      PatienceSpent(accuracy, ml'.ret.passes, options.earlyStop)
                /\ \A e \in 1..(ml'.ret.passes - 1) :
                      ~PatienceSpent(accuracy, e, options.earlyStop)
                /\ ml'.ret.accuracy = BestBefore(accuracy, ml'.ret.passes + 1)]_vars

\* A training stopped early, one epoch of improvement and the patience
\* after it, well before the epochs allowed.
StoppedEarly ==
    /\ ml.ret.op = "train" /\ ml.ret.ok
    /\ ml.ret.passes > 1 /\ ml.ret.passes < ml.ret.epochs
    /\ RLt(Zero, ml.ret.accuracy)
=============================================================================
